---------------------------- MODULE Spec2Model ----------------------------
(***************************************************************************)
(* Model of the cloudy-road geospatial pipeline: track -> H3 cells         *)
(* (src/lib/h3.ts), fog-zone discovery (src/lib/actions/fogAnalysis.ts)    *)
(* the route flow score (src/lib/scoring.ts), the directions wrapper, the  *)
(* fog summary and saveHexagons against the database, the polygon fill     *)
(* (src/unnamed/part_002) and the dashboard that uploads dropped tracks    *)
(* (src/components/ui/GpxDropZone.tsx).                                    *)
(*                                                                         *)
(* Geometry.  The H3 grid is modelled as the ideal flat hexagonal grid of  *)
(* edge length HEX_EDGE_METERS (pointy-top, axial coordinates <<q, r>>).   *)
(* A geographic point [lng, lat] is a pair <<X, Y>> of integers: X counts  *)
(* units of sqrt(3) metres eastwards, Y counts metres northwards, so the   *)
(* squared distance 3*dX^2 + dY^2 is an exact integer number of square     *)
(* metres and every comparison the code makes on a distance is decided     *)
(* exactly.  The centre of cell <<q, r>> is <<66q + 33r, 99r>>.            *)
(***************************************************************************)
EXTENDS Integers, Sequences, FiniteSets, TLC

VARIABLES
    \* trackToH3Indices (src/lib/h3.ts)
    coordinates,   \* the track handed to trackToH3Indices
    emitted,       \* per segment, the cells passed to indices.add, in order
    indices,       \* the returned array
    trackPc,       \* "input" | "done"
    \* calculateFlowScore (src/lib/scoring.ts)
    steps,         \* the route steps handed to calculateFlowScore
    distance,      \* distanceMeters
    flowScore,     \* the returned FlowScore
    flowPc,        \* "input" | "done"
    \* getFogZones (src/lib/actions/fogAnalysis.ts)
    fogPc,             \* "idle" | "awaiting" | "returned" | "threw"
    userLocation,      \* the userLocation argument
    searchRadius,      \* options.searchRadiusGridSteps ?? the default
    rpcCalls,          \* requests sent to get_uncleared_hex_list
    allUnclearedHexes, \* what getUnclearedHexes resolved to
    nearbyHexes,       \* the cells that passed the spatial pre-filter
    clustered,         \* per nearby cell, the cluster id DBSCAN gave it
    dbscanRuns,        \* calls of clustersDbscan
    fogZones,          \* the zones as built, before the sort
    fogResult,         \* the returned array
    firstRun,          \* what an earlier run on the same input computed
    \* getDirections (src/unnamed/part_000)
    dirPc,         \* "idle" | "fetching" | "returned" | "threw"
    dirToken,      \* process.env.NEXT_PUBLIC_MAPBOX_TOKEN is set
    dirUrl,        \* the request: profile and the points of the coordinate string
    dirFetches,    \* calls of fetch
    dirResponse,   \* what fetch resolved to
    dirResult,     \* the returned DirectionsResult
    dirError,      \* the thrown error
    \* the database (src/scripts/migrations/001_master_hexagons_and_rpc.sql)
    masterHexagons,   \* table master_hexagons: rows [h3_index, borough]
    clearedHexagons,  \* table cleared_hexagons: rows [user_id, h3_index], in heap order
    \* getUnclearedHexesSummary (src/lib/actions/fogAnalysis.ts)
    sumPc,         \* "idle" | "awaiting" | "returned" | "threw"
    sumArgs,       \* userId and borough of the call
    sumRpcCalls,   \* requests sent to get_fog_summary
    sumResult,     \* the returned FogSummary
    sumError,      \* the thrown error
    \* saveHexagons (src/lib/actions/fogAnalysis.ts:268-293)
    supabase,      \* the module's client is configured (not null)
    sessionUser,   \* what supabase.auth.getUser() resolves to
    savePc,        \* "idle" | "auth" | "upserting" | "returned" | "threw"
    h3Indices,     \* the argument of the running or last call
    rows,          \* the rows built from h3Indices
    chunkStart,    \* the loop variable i
    saveError,     \* the thrown error
    saveLog,       \* the finished calls: argument, user, outcome, table afterwards
    authLookups,   \* calls of supabase.auth.getUser() by the running or last call
    upsertCalls,   \* the chunks it passed to upsert, in order
    \* multiPolygonToH3Indices (src/unnamed/part_002)
    polyPc,          \* "idle" | "input" | "done"
    polyCoordinates, \* the MultiPolygon coordinates: polygons of rings of [lng, lat]
    polyResolution,  \* the resolution argument
    polyCalls,       \* per polygon, what polygonToH3Indices was given and returned
    allIndices,      \* the returned array
    \* DashboardClient and GpxDropZone (src/components/ui/GpxDropZone.tsx)
    activityData,    \* React state: the FeatureCollection shown on the map
    clearedState,    \* React state clearedHexagons: the cells shown as cleared
    isProcessing,    \* React state
    isAuthenticated, \* React state
    userLookup,      \* loadHexagons is awaiting getCurrentUser()
    hexagonLoads,    \* the getUserHexagons() calls in flight: the user of each
    dropped,         \* a drop whose file is being read: the data and the
                     \* isAuthenticated its onDataLoaded callback closed over
    upload,          \* the handleGpxLoaded run awaiting saveHexagons: its indices
    gpxLoads,        \* runs of handleGpxLoaded so far
    saveCalls        \* calls of saveHexagons made by handleGpxLoaded so far

trackVars == <<coordinates, emitted, indices, trackPc>>
flowVars == <<steps, distance, flowScore, flowPc>>
fogVars == <<fogPc, userLocation, searchRadius, rpcCalls, allUnclearedHexes,
             nearbyHexes, clustered, dbscanRuns, fogZones, fogResult, firstRun>>
dirVars == <<dirPc, dirToken, dirUrl, dirFetches, dirResponse, dirResult, dirError>>
dbVars == <<masterHexagons, clearedHexagons>>
sumVars == <<sumPc, sumArgs, sumRpcCalls, sumResult, sumError>>
saveVars == <<supabase, sessionUser, savePc, h3Indices, rows, chunkStart,
              saveError, saveLog, authLookups, upsertCalls>>
polyVars == <<polyPc, polyCoordinates, polyResolution, polyCalls, allIndices>>
dashVars == <<activityData, clearedState, isProcessing, isAuthenticated,
              userLookup, hexagonLoads, dropped, upload, gpxLoads, saveCalls>>
vars == <<trackVars, flowVars, fogVars, dirVars, dbVars, sumVars, saveVars,
          polyVars, dashVars>>

-----------------------------------------------------------------------------
(* Arithmetic helpers *)

Abs(x) == IF x < 0 THEN -x ELSE x

\* Math.round of the rational n / d (d > 0): nearest integer, halves go up
RoundDiv(n, d) == (2 * n + d) \div (2 * d)

Range(s) == {s[i] : i \in 1..Len(s)}

\* a value that is absent: an unset field, a call that produced nothing
Nothing == [defined |-> FALSE]
Some(v) == [defined |-> TRUE, value |-> v]

NoDuplicates(s) == \A i, j \in 1..Len(s) : i # j => s[i] # s[j]

-----------------------------------------------------------------------------
(* Program constants *)

H3_RESOLUTION == 10
HEX_EDGE_METERS == 66
MAX_GAP_METERS == 50

\* centre-to-centre spacing of adjacent cells, squared (3 * edge^2), in m^2
CellSpacingSq == 3 * HEX_EDGE_METERS * HEX_EDGE_METERS

-----------------------------------------------------------------------------
(* Geometry: @turf/distance and h3-js on the flat hexagonal grid *)

\* distance(point(a), point(b), {units: "meters"}), squared
DistSq(a, b) ==
    LET dx == a[1] - b[1]
        dy == a[2] - b[2]
    IN  3 * dx * dx + dy * dy

\* cellToLatLng: the centre of a cell, as a point
cellToLatLng(c) == <<HEX_EDGE_METERS * c[1] + (HEX_EDGE_METERS \div 2) * c[2],
                     ((3 * HEX_EDGE_METERS) \div 2) * c[2]>>

\* latLngToCell for the point <<xn / den, yn / den>>: fractional axial
\* coordinates q = (3X - Y) / 198, r = 2Y / 198, then cube rounding.
CellOfScaled(xn, yn, den) ==
    LET D  == 3 * HEX_EDGE_METERS * den
        qn == 3 * xn - yn
        rn == 2 * yn
        sn == -qn - rn
        rq == RoundDiv(qn, D)
        rr == RoundDiv(rn, D)
        rs == RoundDiv(sn, D)
        dq == Abs(rq * D - qn)
        dr == Abs(rr * D - rn)
        ds == Abs(rs * D - sn)
    IN  IF dq > dr /\ dq > ds THEN <<-rr - rs, rr>>
        ELSE IF dr > ds THEN <<rq, -rq - rs>>
        ELSE <<rq, rr>>

latLngToCell(p) == CellOfScaled(p[1], p[2], 1)

\* number of grid steps between two cells of the flat grid
HexSteps(a, b) ==
    LET dq == a[1] - b[1]
        dr == a[2] - b[2]
    IN  (Abs(dq) + Abs(dr) + Abs(dq + dr)) \div 2

-----------------------------------------------------------------------------
(* trackToH3Indices, src/lib/h3.ts:13-49 *)

\* an array push where the code uses a Set: no deduplication
SetAdd_Push(s, x) == Append(s, x)

\* Set.add on the insertion-ordered Set `indices`
SetAdd(s, x) == IF x \in Range(s) THEN s ELSE Append(s, x)

RECURSIVE SetAddAll(_, _)
SetAddAll(s, xs) ==
    IF xs = <<>> THEN s ELSE SetAddAll(SetAdd(s, Head(xs)), Tail(xs))

\* the distance taken in kilometres (the units option left out)
GapTooLarge_Km(p1, p2) ==
    DistSq(p1, p2) \div (1000 * 1000) >= MAX_GAP_METERS * MAX_GAP_METERS

\* dist > MAX_GAP_METERS
GapTooLarge(p1, p2) == DistSq(p1, p2) > MAX_GAP_METERS * MAX_GAP_METERS

\* the step count rounded down instead of up
Steps_Floor(p1, p2) ==
    LET d2 == DistSq(p1, p2)
        g  == MAX_GAP_METERS
    IN  CHOOSE s \in 0..(d2 + 1) :
            /\ s * s * g * g <= d2
            /\ (s + 1) * (s + 1) * g * g > d2

\* Math.ceil(dist / MAX_GAP_METERS)
Steps(p1, p2) ==
    LET d2 == DistSq(p1, p2)
        g  == MAX_GAP_METERS
    IN  CHOOSE s \in 0..(d2 + 1) :
            /\ s * s * g * g >= d2
            /\ s > 0 => (s - 1) * (s - 1) * g * g < d2

\* the cell of the j-th interpolated point, t = j / steps
InterpCell(p1, p2, j, nSteps) ==
    CellOfScaled(p1[1] * nSteps + (p2[1] - p1[1]) * j,
                 p1[2] * nSteps + (p2[2] - p1[2]) * j,
                 nSteps)

\* the cells added for j = 1 .. nSteps - 1 when the gap is too large
InterpolatedCells(p1, p2) ==
    IF GapTooLarge(p1, p2)
    THEN LET nSteps == Steps(p1, p2)
         IN  [j \in 1..(nSteps - 1) |-> InterpCell(p1, p2, j, nSteps)]
    ELSE <<>>

\* one iteration of the loop over i: the start cell, then the interpolated cells
SegmentEmission(p1, p2) == <<latLngToCell(p1)>> \o InterpolatedCells(p1, p2)

\* the loop alone, without the final point added after it
Emission_LoopOnly(coords) ==
    [i \in 1..(Len(coords) - 1) |-> SegmentEmission(coords[i], coords[i + 1])]

\* what the whole call adds, per loop iteration, and last the final point
Emission(coords) ==
    IF Len(coords) = 0 THEN <<>>
    ELSE [i \in 1..Len(coords) |->
            IF i < Len(coords) THEN SegmentEmission(coords[i], coords[i + 1])
            ELSE <<latLngToCell(coords[Len(coords)])>>]

RECURSIVE AddEmission(_, _)
AddEmission(s, em) ==
    IF em = <<>> THEN s ELSE AddEmission(SetAddAll(s, Head(em)), Tail(em))

trackToH3Indices(coords) ==
    IF Len(coords) = 0 THEN <<>> ELSE AddEmission(<<>>, Emission(coords))

-----------------------------------------------------------------------------
(* Track specification: the inputs of trackToH3Indices *)

MaxTrackLen == 3
MaxTrackX == 1
MaxTrackY == 3
TrackStride == MAX_GAP_METERS

TrackPoints == {<<TrackStride * i, TrackStride * j>> : i \in 0..MaxTrackX, j \in 0..MaxTrackY}

RECURSIVE SeqsUpTo(_, _)
SeqsUpTo(S, n) ==
    IF n = 0 THEN {<<>>}
    ELSE LET shorter == SeqsUpTo(S, n - 1)
         IN  shorter \cup {Append(s, x) : s \in {t \in shorter : Len(t) = n - 1}, x \in S}

TrackInit ==
    /\ coordinates \in SeqsUpTo(TrackPoints, MaxTrackLen)
    /\ emitted = <<>>
    /\ indices = <<>>
    /\ trackPc = "input"

TrackToH3 ==
    /\ trackPc = "input"
    /\ emitted' = Emission(coordinates)
    /\ indices' = trackToH3Indices(coordinates)
    /\ trackPc' = "done"
    /\ UNCHANGED coordinates


-----------------------------------------------------------------------------
(* calculateFlowScore, src/lib/scoring.ts *)

\* A maneuver type is compared with === only, so it is an atomic string.  A
\* modifier is lower-cased and searched, so its text is a sequence of
\* characters; NoModifier is the modifier of a step that has none (undefined).
Undefined == "undefined"
Modifier(text) == [defined |-> TRUE, text |-> text]
NoModifier == [defined |-> FALSE, text |-> <<>>]

\* JavaScript's results of a division by zero, as numbers no score can take
Infinity == 2147483647
NaN == 0 - 1

UpperCase == <<"A", "B", "C", "D", "E", "F", "G", "H", "I", "J", "K", "L", "M",
               "N", "O", "P", "Q", "R", "S", "T", "U", "V", "W", "X", "Y", "Z">>
LowerCase == <<"a", "b", "c", "d", "e", "f", "g", "h", "i", "j", "k", "l", "m",
               "n", "o", "p", "q", "r", "s", "t", "u", "v", "w", "x", "y", "z">>

ToLowerChar(c) ==
    IF \E i \in 1..Len(UpperCase) : UpperCase[i] = c
    THEN LowerCase[CHOOSE i \in 1..Len(UpperCase) : UpperCase[i] = c]
    ELSE c

\* String.prototype.toLowerCase
ToLowerCase(str) == [i \in 1..Len(str) |-> ToLowerChar(str[i])]

\* String.prototype.includes
Includes(str, sub) ==
    \E i \in 0..(Len(str) - Len(sub)) : SubSeq(str, i + 1, i + Len(sub)) = sub

\* the truthiness test `modifier &&`: undefined and "" are falsy
Truthy(modifier) == modifier.defined /\ modifier.text # <<>>

\* the substrings isTurnManeuver searches for, and the modifiers of the model
LEFT_ == <<"l", "e", "f", "t">>
RIGHT_ == <<"r", "i", "g", "h", "t">>
SLIGHT_LEFT_ == <<"S", "l", "i", "g", "h", "t", " ", "L", "e", "f", "t">>
SHARP_RIGHT_UPPER_ == <<"S", "H", "A", "R", "P", " ", "R", "I", "G", "H", "T">>
STRAIGHT_ == <<"s", "t", "r", "a", "i", "g", "h", "t">>
UTURN_ == <<"u", "t", "u", "r", "n">>

\* a case-sensitive search: toLowerCase left out
IsTurnManeuver_CaseSensitive(step) ==
    \/ step.type = "turn" \/ step.type = "end of road"
    \/ step.type = "rotary" \/ step.type = "roundabout"
    \/ /\ step.type = "new name"
       /\ Truthy(step.modifier)
       /\ \/ Includes(step.modifier.text, LEFT_)
          \/ Includes(step.modifier.text, RIGHT_)

isTurnManeuver(step) ==
    IF step.type = "turn" \/ step.type = "end of road" THEN TRUE
    ELSE IF step.type = "rotary" \/ step.type = "roundabout" THEN TRUE
    ELSE IF step.type = "new name" /\ Truthy(step.modifier)
         THEN LET modLower == ToLowerCase(step.modifier.text)
              IN  Includes(modLower, LEFT_) \/ Includes(modLower, RIGHT_)
    ELSE FALSE

\* steps.filter(isTurnManeuver).length
RECURSIVE CountTurns(_)
CountTurns(ss) ==
    IF ss = <<>> THEN 0
    ELSE (IF isTurnManeuver(Head(ss)) THEN 1 ELSE 0) + CountTurns(Tail(ss))

\* turnCount / distanceKm with no guard: JavaScript's division by zero
TurnsPerKmRounded_NoGuard(turnCount, distanceMeters) ==
    IF distanceMeters = 0
    THEN (IF turnCount = 0 THEN NaN ELSE Infinity)
    ELSE RoundDiv(turnCount * 100000, distanceMeters)

\* Math.round(turnsPerKm * 100) / 100, in hundredths, with
\* turnsPerKm = distanceKm > 0 ? turnCount / distanceKm : 0
TurnsPerKmRounded(turnCount, distanceMeters) ==
    IF distanceMeters > 0
    THEN RoundDiv(turnCount * 100000, distanceMeters)
    ELSE 0

\* the interpolation applied above 12 turns/km too: no lower clamp at 0.0
FlowPenaltyRounded_NoClamp(turnCount, distanceMeters) ==
    IF distanceMeters <= 0 THEN 1000
    ELSE IF 1000 * turnCount < 3 * distanceMeters THEN 1000
    ELSE 0 - RoundDiv(1000 * (1000 * turnCount - 12 * distanceMeters),
                      (12 - 3) * distanceMeters)

\* the interpolation written the wrong way round: (turnsPerKm - 3) / (12 - 3)
FlowPenaltyRounded_Rising(turnCount, distanceMeters) ==
    IF distanceMeters <= 0 THEN 1000
    ELSE IF 1000 * turnCount < 3 * distanceMeters THEN 1000
    ELSE IF 1000 * turnCount > 12 * distanceMeters THEN 0
    ELSE RoundDiv(1000 * (1000 * turnCount - 3 * distanceMeters),
                  (12 - 3) * distanceMeters)

\* Math.round(flowPenalty * 1000) / 1000, in thousandths; the thresholds are
\* compared on the unrounded turnsPerKm = 1000 * turnCount / distanceMeters
FlowPenaltyRounded(turnCount, distanceMeters) ==
    IF distanceMeters <= 0 THEN 1000
    ELSE IF 1000 * turnCount < 3 * distanceMeters THEN 1000
    ELSE IF 1000 * turnCount > 12 * distanceMeters THEN 0
    ELSE RoundDiv(1000 * (12 * distanceMeters - 1000 * turnCount),
                  (12 - 3) * distanceMeters)

calculateFlowScore(stepList, distanceMeters) ==
    LET turnCount == CountTurns(stepList)
    IN  [turnCount   |-> turnCount,
         turnsPerKm  |-> TurnsPerKmRounded(turnCount, distanceMeters),
         flowPenalty |-> FlowPenaltyRounded(turnCount, distanceMeters)]

-----------------------------------------------------------------------------
(* Flow specification: the inputs of calculateFlowScore *)

Maneuver(type, modifier) == [type |-> type, modifier |-> modifier]

\* the modifiers a "new name" step takes in the model
NewNameModifiers ==
    {NoModifier} \cup {Modifier(t) : t \in {<<>>, LEFT_, RIGHT_, SLIGHT_LEFT_,
                                              SHARP_RIGHT_UPPER_, STRAIGHT_, UTURN_}}

\* the steps the lists are built from: every maneuver type the scorer names,
\* other types of the routing provider, and modifiers in several spellings
StepPool ==
    {Maneuver("turn", Modifier(LEFT_)), Maneuver("end of road", Modifier(RIGHT_)),
     Maneuver("rotary", Modifier(STRAIGHT_)), Maneuver("roundabout", NoModifier),
     Maneuver("continue", Modifier(STRAIGHT_)), Maneuver("depart", NoModifier),
     Maneuver("arrive", Modifier(RIGHT_)), Maneuver("merge", Modifier(SLIGHT_LEFT_)),
     Maneuver("fork", Modifier(LEFT_)), Maneuver("exit roundabout", Modifier(RIGHT_))}
    \cup {Maneuver("new name", m) : m \in NewNameModifiers}

MaxStepsLen == 2
MaxFill == 20

\* Array(k).fill(step)
Fill(k, step) == [i \in 1..k |-> step]

StepLists ==
    SeqsUpTo(StepPool, MaxStepsLen)
        \cup {Fill(k, Maneuver("turn", Modifier(LEFT_))) : k \in 0..MaxFill}

\* total route distances in metres
FlowDistances == {0, 1, 300, 1000, 1500, 5000, 20000}

FlowInit ==
    /\ steps \in StepLists
    /\ distance \in FlowDistances
    /\ flowScore = Undefined
    /\ flowPc = "input"

CalculateFlowScore ==
    /\ flowPc = "input"
    /\ flowScore' = calculateFlowScore(steps, distance)
    /\ flowPc' = "done"
    /\ UNCHANGED <<steps, distance>>

\* the routes that are scored again start from at most one step
RescoreInit ==
    /\ steps \in SeqsUpTo(StepPool, 1)
    /\ distance \in FlowDistances
    /\ flowScore = Undefined
    /\ flowPc = "input"

\* the same route with one more turn step, scored again over the same distance
CalculateFlowScoreLonger ==
    /\ flowPc = "done"
    /\ Len(steps) < MaxFill
    /\ steps' = Append(steps, Maneuver("turn", Modifier(LEFT_)))
    /\ flowScore' = calculateFlowScore(steps', distance)
    /\ UNCHANGED <<distance, flowPc>>


-----------------------------------------------------------------------------
(* getFogZones, src/lib/actions/fogAnalysis.ts:148-246 *)

HEX_AREA_MILLI_KM2 == 15
DEFAULT_SEARCH_RADIUS_STEPS == 50
DBSCAN_MAX_DISTANCE_METERS == 500
DBSCAN_MIN_POINTS == 20
MAX_ZONES_RETURNED == 20

\* Cells whose q coordinate is at or beyond FaceBoundaryQ lie on another face
\* of the icosahedron: gridDistance between cells of different faces throws.
FaceBoundaryQ == 100
FaceOf(c) == IF c[1] >= FaceBoundaryQ THEN 1 ELSE 0

\* gridDistance (h3-js): the number of grid steps, or a thrown error
gridDistance(a, b) ==
    IF FaceOf(a) # FaceOf(b)
    THEN [threw |-> TRUE, value |-> 0]
    ELSE [threw |-> FALSE, value |-> HexSteps(a, b)]

\* a catch block that keeps the cell: catch { return true }
NearbyFilter_CatchKeeps(userHex, hex, radius) ==
    LET dist == gridDistance(userHex, hex)
    IN  IF dist.threw THEN TRUE ELSE dist.value <= radius

\* the filter callback: try { return dist <= searchRadius } catch { return false }
NearbyFilter(userHex, hex, radius) ==
    LET dist == gridDistance(userHex, hex)
    IN  IF dist.threw THEN FALSE ELSE dist.value <= radius

\* the array holding the elements of the sequence f
AsArray(f) == SubSeq(f, 1, Len(f))

\* allUnclearedHexes.filter(...)
FilterNearby(hexes, userHex, radius) ==
    SelectSeq(hexes, LAMBDA hex : NearbyFilter(userHex, hex, radius))

\* turf.points(nearbyHexes.map(cellToLatLng))
Points(hexes) == AsArray([i \in 1..Len(hexes) |-> cellToLatLng(hexes[i])])

\* a region query that leaves out the point itself
RegionQuery_ExcludesSelf(points, i) ==
    {j \in 1..Len(points) :
        /\ j # i
        /\ DistSq(points[i], points[j])
            <= DBSCAN_MAX_DISTANCE_METERS * DBSCAN_MAX_DISTANCE_METERS}

\* regionQuery of clustersDbscan: the points within maxDistance, itself included
RegionQuery(points, i) ==
    {j \in 1..Len(points) :
        DistSq(points[i], points[j])
            <= DBSCAN_MAX_DISTANCE_METERS * DBSCAN_MAX_DISTANCE_METERS}

\* the points with at least minPoints neighbours
CorePoints(points) ==
    {i \in 1..Len(points) :
        Cardinality(RegionQuery(points, i)) >= DBSCAN_MIN_POINTS}

\* expandCluster of clustersDbscan.  Its neighbour list grows by the region of
\* every listed point that was not visited before this cluster and has
\* minPoints neighbours; the points it lists are the least set closed under
\* that rule, computed here one frontier at a time.
RECURSIVE ExpandCluster(_, _, _, _, _)
ExpandCluster(points, core, visited, reached, frontier) ==
    LET grown == UNION {RegionQuery(points, j) :
                          j \in (frontier \cap core) \ visited}
        fresh == grown \ reached
    IN  IF fresh = {} THEN reached
        ELSE ExpandCluster(points, core, visited, reached \cup fresh, fresh)

\* the main loop of clustersDbscan over the points in order: a point already
\* visited or with fewer than minPoints neighbours is passed over, so each
\* cluster starts at the first point that is unvisited and has minPoints
\* neighbours; every listed point not yet assigned joins the cluster
RECURSIVE DbscanFrom(_, _, _)
DbscanFrom(points, core, st) ==
    LET seeds == core \ st.visited
    IN  IF seeds = {} THEN st
        ELSE LET index     == CHOOSE i \in seeds : \A o \in seeds : i <= o
                 neighbors == RegionQuery(points, index)
                 listed    == ExpandCluster(points, core,
                                            st.visited \cup {index},
                                            neighbors, neighbors)
             IN  DbscanFrom(points, core,
                    [visited  |-> st.visited \cup listed,
                     clusters |-> Append(st.clusters, listed \ st.visited)])

\* a clustering that keeps its visited marks from the run before
clustersDbscan_KeepsVisited(points) ==
    LET before   == {i \in 1..Len(points) : i <= Len(clustered) /\ clustered[i] >= 0}
        clusters == DbscanFrom(points, CorePoints(points),
                               [visited |-> before, clusters |-> <<>>]).clusters
    IN  AsArray([i \in 1..Len(points) |->
            IF \E c \in 1..Len(clusters) : i \in clusters[c]
            THEN (CHOOSE c \in 1..Len(clusters) : i \in clusters[c]) - 1
            ELSE 0 - 1])

\* clustersDbscan: for each point its cluster id, -1 for noise
clustersDbscan(points) ==
    LET clusters == DbscanFrom(points, CorePoints(points),
                               [visited |-> {}, clusters |-> <<>>]).clusters
    IN  AsArray([i \in 1..Len(points) |->
            IF \E c \in 1..Len(clusters) : i \in clusters[c]
            THEN (CHOOSE c \in 1..Len(clusters) : i \in clusters[c]) - 1
            ELSE 0 - 1])

\* the grouping loop without its skip of noise: -1 becomes a key too
ClusterKeys_KeepsNoise(cluster) ==
    LET ids    == Range(cluster)
        firsts == {<<CHOOSE i \in 1..Len(cluster) :
                        /\ cluster[i] = c
                        /\ \A j \in 1..(i - 1) : cluster[j] # c,
                     c>> : c \in ids}
    IN  AsArray([k \in 1..Cardinality(ids) |->
            (CHOOSE f \in firsts :
                Cardinality({o \in firsts : o[1] < f[1]}) = k - 1)[2]])

\* the keys of clusterMap in insertion order: cluster ids by first appearance
ClusterKeys(cluster) ==
    LET ids    == Range(cluster) \ {0 - 1}
        firsts == {<<CHOOSE i \in 1..Len(cluster) :
                        /\ cluster[i] = c
                        /\ \A j \in 1..(i - 1) : cluster[j] # c,
                     c>> : c \in ids}
    IN  AsArray([k \in 1..Cardinality(ids) |->
            (CHOOSE f \in firsts :
                Cardinality({o \in firsts : o[1] < f[1]}) = k - 1)[2]])

\* clusterMap.get(id): the indices of the features of one cluster
ClusterMembers(cluster, id) == {i \in 1..Len(cluster) : cluster[i] = id}

RECURSIVE SumOver(_, _, _)
SumOver(points, is, k) ==
    IF is = {} THEN 0
    ELSE LET i == CHOOSE x \in is : TRUE
         IN  points[i][k] + SumOver(points, is \ {i}, k)

\* centerOfMass of the cluster's points, taken as their mean position
centerOfMass(points, members) ==
    <<RoundDiv(SumOver(points, members, 1), Cardinality(members)),
      RoundDiv(SumOver(points, members, 2), Cardinality(members))>>

\* the integer nearest to the square root of n
RECURSIVE SqrtSearch(_, _, _)
SqrtSearch(n, lo, hi) ==
    IF lo >= hi THEN lo
    ELSE LET mid == (lo + hi + 1) \div 2
         IN  IF mid * mid - mid < n THEN SqrtSearch(n, mid, hi)
             ELSE SqrtSearch(n, lo, mid - 1)

\* distance(a, b, {units: "kilometers"}), in whole metres
DistanceMeters(a, b) == SqrtSearch(DistSq(a, b), 0, 46000)

\* Math.round((hexCount / (distanceFromUser + 1)) * 100) / 100, in hundredths
PriorityScore(hexCount, distanceMeters) ==
    RoundDiv(hexCount * 100000, distanceMeters + 1000)

\* one FogZone; distances in hundredths of a km, the area in thousandths of a km2
BuildZone(points, members, zoneIndex, userPoint) ==
    LET hexCount == Cardinality(members)
        center   == centerOfMass(points, members)
        distanceFromUser == DistanceMeters(userPoint, center)
    IN  [id               |-> zoneIndex,
         centroid         |-> center,
         hexCount         |-> hexCount,
         estimatedAreaKm2 |-> hexCount * HEX_AREA_MILLI_KM2,
         distanceFromUser |-> RoundDiv(distanceFromUser, 10),
         priorityScore    |-> PriorityScore(hexCount, distanceFromUser)]

\* the loop over clusterMap: zone_0, zone_1, ... in insertion order
BuildZones(points, cluster, userPoint) ==
    LET keys == ClusterKeys(cluster)
    IN  AsArray([k \in 1..Len(keys) |->
            BuildZone(points, ClusterMembers(cluster, keys[k]), k - 1, userPoint)])

\* an ascending comparator: a.priorityScore - b.priorityScore
SortsBefore_Ascending(a, b) == a.priorityScore < b.priorityScore

\* the comparator (a, b) => b.priorityScore - a.priorityScore is negative
SortsBefore(a, b) == a.priorityScore > b.priorityScore

\* Array.prototype.sort, which is stable: insert z after every element that
\* does not sort after it
RECURSIVE InsertSorted(_, _)
InsertSorted(sorted, z) ==
    IF sorted = <<>> THEN <<z>>
    ELSE IF SortsBefore(z, Head(sorted)) THEN <<z>> \o sorted
    ELSE <<Head(sorted)>> \o InsertSorted(Tail(sorted), z)

RECURSIVE SortZones(_, _)
SortZones(zones, sorted) ==
    IF zones = <<>> THEN sorted
    ELSE SortZones(Tail(zones), InsertSorted(sorted, Head(zones)))

\* a slice that numbers the zones again by rank
Slice_Renumbers(zones, n) ==
    [k \in 1..(IF Len(zones) < n THEN Len(zones) ELSE n) |->
        [zones[k] EXCEPT !.id = k - 1]]

\* fogZones.slice(0, n)
Slice(zones, n) == SubSeq(zones, 1, IF Len(zones) < n THEN Len(zones) ELSE n)

-----------------------------------------------------------------------------
(* Fog specification: the calls of getFogZones and the provider's answers *)

\* A patch is a compact group of cells: the first k cells of PatchShape, moved
\* to an anchor.  All 21 cells of the shape lie within 500 m of each other.
PatchShape ==
    <<<<0, 0>>, <<-1, 0>>, <<-1, 1>>, <<0, -1>>, <<0, 1>>, <<1, -1>>, <<1, 0>>,
      <<-2, 1>>, <<-1, -1>>, <<-1, 2>>, <<1, -2>>, <<1, 1>>, <<2, -1>>, <<-2, 0>>,
      <<0, -2>>, <<2, -2>>, <<2, 0>>, <<-1, -2>>, <<1, -3>>, <<2, -3>>, <<3, -2>>>>

Patch(anchor, k) ==
    [i \in 1..k |-> <<anchor[1] + PatchShape[i][1], anchor[2] + PatchShape[i][2]>>]

Sparse == DBSCAN_MIN_POINTS - 1
Dense == DBSCAN_MIN_POINTS
Full == Len(PatchShape)

\* the patches an uncleared-cell list is made of: <<anchor, number of cells>>
PatchChoices ==
    {<<<<0, 0>>, Sparse>>, <<<<0, 0>>, Dense>>, <<<<0, 0>>, Full>>,
     <<<<3, 0>>, 1>>,
     <<<<9, 0>>, Sparse>>, <<<<9, 0>>, Dense>>,
     <<<<30, 10>>, Dense>>,
     <<<<FaceBoundaryQ, 0>>, 1>>}

MaxPatches == 3

RECURSIVE PatchLists(_)
PatchLists(n) ==
    IF n = 0 THEN {<<>>}
    ELSE LET shorter == PatchLists(n - 1)
         IN  shorter \cup
             {Append(l, c) : l \in {t \in shorter : Len(t) = n - 1},
                             c \in PatchChoices}

DistinctAnchors(l) == \A i, j \in 1..Len(l) : i # j => l[i][1] # l[j][1]

RECURSIVE Cells(_)
Cells(l) == IF l = <<>> THEN <<>> ELSE Patch(Head(l)[1], Head(l)[2]) \o Cells(Tail(l))

\* lists of many separate patches on a grid of anchors TilePitch cells apart,
\* alternately of Dense and Full size
TilePitch == 10
TilesPerRow == 5
MaxExtraTiles == 1
TileAnchor(i) == <<TilePitch * (i % TilesPerRow), TilePitch * (i \div TilesPerRow)>>
TileSize(i) == IF i % 2 = 0 THEN Dense ELSE Full

RECURSIVE Tiles(_)
Tiles(k) ==
    IF k = 0 THEN <<>>
    ELSE Tiles(k - 1) \o Patch(TileAnchor(k - 1), TileSize(k - 1))

\* the answers of get_uncleared_hex_list: lists of distinct cells
PatchAnswers ==
    {Cells(l) : l \in {t \in PatchLists(MaxPatches) : DistinctAnchors(t)}}
ProviderLists ==
    PatchAnswers \cup {Tiles(MAX_ZONES_RETURNED + k) : k \in 1..MaxExtraTiles}

\* the calls: a user location and the searchRadiusGridSteps option, if given
NoOption == [given |-> FALSE, value |-> 0]
Option(v) == [given |-> TRUE, value |-> v]
FogCalls ==
    {<<<<0, 0>>, NoOption>>,
     <<<<140, 2090>>, NoOption>>,
     <<<<1980, 1980>>, NoOption>>,
     <<<<594, 0>>, Option(4)>>}

FogIdle ==
    /\ fogPc = "idle"
    /\ userLocation = <<0, 0>>
    /\ searchRadius = 0
    /\ rpcCalls = 0
    /\ allUnclearedHexes = <<>>
    /\ nearbyHexes = <<>>
    /\ clustered = <<>>
    /\ dbscanRuns = 0
    /\ fogZones = <<>>
    /\ fogResult = <<>>
    /\ firstRun = Nothing

\* getFogZones up to its await: the options are read, the request is sent
GetFogZonesCall(call) ==
    /\ fogPc = "idle"
    /\ fogPc' = "awaiting"
    /\ userLocation' = call[1]
    /\ searchRadius' = IF call[2].given THEN call[2].value
                       ELSE DEFAULT_SEARCH_RADIUS_STEPS
    /\ rpcCalls' = rpcCalls + 1
    /\ UNCHANGED <<allUnclearedHexes, nearbyHexes, clustered, dbscanRuns,
                   fogZones, fogResult>>
    /\ UNCHANGED firstRun
    /\ UNCHANGED <<trackVars, flowVars, dirVars, dbVars, sumVars, saveVars, polyVars, dashVars>>

\* the RPC reports an error: getUnclearedHexes throws, getFogZones rejects
GetFogZonesRpcError ==
    /\ fogPc = "awaiting"
    /\ fogPc' = "threw"
    /\ UNCHANGED <<userLocation, searchRadius, rpcCalls, allUnclearedHexes,
                   nearbyHexes, clustered, dbscanRuns, fogZones, fogResult>>
    /\ UNCHANGED firstRun
    /\ UNCHANGED <<trackVars, flowVars, dirVars, dbVars, sumVars, saveVars, polyVars, dashVars>>

\* a density check that never returns early
TooFewPoints_Never(nearby) == FALSE

\* if (nearbyHexes.length < DBSCAN_MIN_POINTS) return []
TooFewPoints(nearby) == Len(nearby) < DBSCAN_MIN_POINTS

\* the steps in the other order: every uncleared cell is clustered, and the
\* grid-distance filter is applied to the clustered cells
getFogZones_ClusterFirst(data, userPoint, radius) ==
    LET userHex == latLngToCell(userPoint)
        nearby  == FilterNearby(data, userHex, radius)
        runs    == Len(data) # 0 /\ ~TooFewPoints(nearby)
        points  == Points(data)
        all     == IF runs THEN clustersDbscan(points) ELSE <<>>
        cluster == AsArray([i \in 1..Len(all) |->
                      IF NearbyFilter(userHex, data[i], radius) THEN all[i]
                      ELSE 0 - 1])
        zones   == IF runs THEN BuildZones(points, cluster, userPoint) ELSE <<>>
    IN  [nearbyHexes |-> nearby,
         dbscanRan   |-> runs,
         clustered   |-> cluster,
         fogZones    |-> zones,
         returned    |-> Slice(SortZones(zones, <<>>), MAX_ZONES_RETURNED)]

\* getFogZones after its await: what the rest of the function computes from
\* the provider's answer
getFogZones(data, userPoint, radius) ==
    LET userHex == latLngToCell(userPoint)
        nearby  == IF Len(data) = 0 THEN <<>>
                   ELSE FilterNearby(data, userHex, radius)
        runs    == Len(data) # 0 /\ ~TooFewPoints(nearby)
        points  == Points(nearby)
        cluster == IF runs THEN clustersDbscan(points) ELSE <<>>
        zones   == IF runs THEN BuildZones(points, cluster, userPoint) ELSE <<>>
    IN  [nearbyHexes |-> nearby,
         dbscanRan   |-> runs,
         clustered   |-> cluster,
         fogZones    |-> zones,
         returned    |-> Slice(SortZones(zones, <<>>), MAX_ZONES_RETURNED)]

\* the RPC answers with data: the rest of getFogZones runs to its return
GetFogZonesResume(data) ==
    /\ fogPc = "awaiting"
    /\ fogPc' = "returned"
    /\ allUnclearedHexes' = data
    /\ \E run \in {getFogZones(data, userLocation, searchRadius)} :
          /\ nearbyHexes' = run.nearbyHexes
          /\ clustered' = run.clustered
          /\ dbscanRuns' = IF run.dbscanRan THEN dbscanRuns + 1 ELSE dbscanRuns
          /\ fogZones' = run.fogZones
          /\ fogResult' = run.returned
    /\ UNCHANGED <<userLocation, searchRadius, rpcCalls>>
    /\ UNCHANGED firstRun
    /\ UNCHANGED <<trackVars, flowVars, dirVars, dbVars, sumVars, saveVars, polyVars, dashVars>>

\* the filtering, clustering and zone building of a finished call run once
\* more on the same uncleared list, location and radius
GetFogZonesAgain ==
    /\ fogPc = "returned"
    /\ ~firstRun.defined
    /\ firstRun' = Some([nearbyHexes |-> nearbyHexes, clustered |-> clustered,
                         fogZones |-> fogZones, fogResult |-> fogResult])
    /\ \E run \in {getFogZones(allUnclearedHexes, userLocation, searchRadius)} :
          /\ nearbyHexes' = run.nearbyHexes
          /\ clustered' = run.clustered
          /\ dbscanRuns' = IF run.dbscanRan THEN dbscanRuns + 1 ELSE dbscanRuns
          /\ fogZones' = run.fogZones
          /\ fogResult' = run.returned
    /\ UNCHANGED <<fogPc, userLocation, searchRadius, rpcCalls, allUnclearedHexes>>
    /\ UNCHANGED <<trackVars, flowVars, dirVars, dbVars, sumVars, saveVars, polyVars, dashVars>>

-----------------------------------------------------------------------------
(* getDirections, src/unnamed/part_000:93-168 *)

\* const allPoints = [start, ...waypoints, end]
AllPoints(params) == <<params.start>> \o params.waypoints \o <<params.end>>

\* the request URL: the profile segment and the points joined into the path
Url(params) ==
    [profile |-> IF params.profile.defined THEN params.profile.value ELSE "walking",
     points  |-> AllPoints(params)]

\* the mapping of one MapboxStep to a RouteStep
ToRouteStep(step) ==
    [instruction |-> step.maneuver.instruction,
     distance    |-> step.distance,
     duration    |-> step.duration,
     maneuver    |-> [type     |-> step.maneuver.type,
                      modifier |-> step.maneuver.modifier,
                      location |-> step.maneuver.location]]

\* leg.steps.map(...)
MapSteps(legSteps) == [i \in 1..Len(legSteps) |-> ToRouteStep(legSteps[i])]

\* only the first leg is mapped: route.legs[0].steps.map(...)
FlatMapLegs_FirstLeg(legs) ==
    IF legs = <<>> THEN <<>> ELSE MapSteps(Head(legs).steps)

\* route.legs.flatMap(leg => leg.steps.map(...))
RECURSIVE FlatMapLegs(_)
FlatMapLegs(legs) ==
    IF legs = <<>> THEN <<>>
    ELSE MapSteps(Head(legs).steps) \o FlatMapLegs(Tail(legs))

\* the checks of the response body without the check of res.ok
ResponseError_BodyOnly(res) ==
    IF res.data.code # "Ok"
    THEN Some(IF res.data.message.defined /\ res.data.message.value # ""
              THEN <<res.data.message.value>>
              ELSE <<"Mapbox error", res.data.code>>)
    ELSE IF ~res.data.routes.defined \/ Len(res.data.routes.value) = 0
         THEN Some(<<"No route found for the given coordinates">>)
    ELSE Nothing

\* the message of the error thrown for a response, or Nothing when none is
ResponseError(res) ==
    IF ~res.ok THEN Some(<<"Mapbox API error", res.status>>)
    ELSE IF res.data.code # "Ok"
         THEN Some(IF res.data.message.defined /\ res.data.message.value # ""
                   THEN <<res.data.message.value>>
                   ELSE <<"Mapbox error", res.data.code>>)
    ELSE IF ~res.data.routes.defined \/ Len(res.data.routes.value) = 0
         THEN Some(<<"No route found for the given coordinates">>)
    ELSE Nothing

\* the DirectionsResult built from data.routes[0]
DirectionsResult(res) ==
    LET route == res.data.routes.value[1]
    IN  [geometry |-> route.geometry,
         distance |-> route.distance,
         duration |-> route.duration,
         steps    |-> FlatMapLegs(route.legs)]

-----------------------------------------------------------------------------
(* Directions specification: the calls of getDirections and what fetch gives *)

MaxLegSteps == 2
MaxLegs == 2

\* the steps of the routing provider
MapboxStep(type, modifier, instruction) ==
    [maneuver |-> [instruction |-> instruction, type |-> type,
                   modifier |-> modifier, location |-> <<0, 0>>],
     distance |-> Len(instruction),
     duration |-> Len(instruction) + 1]

MapboxSteps ==
    {MapboxStep("depart", NoModifier, "Head north"),
     MapboxStep("turn", Modifier(LEFT_), "Turn left"),
     MapboxStep("arrive", NoModifier, "You have arrived")}

MapboxLegs ==
    {[steps |-> ss, distance |-> Len(ss), duration |-> Len(ss)] :
        ss \in SeqsUpTo(MapboxSteps, MaxLegSteps)}

MapboxRoute(legs) ==
    [geometry |-> [type |-> "LineString", coordinates |-> <<>>],
     distance |-> Len(legs), duration |-> Len(legs), legs |-> legs]

MapboxRoutes == {MapboxRoute(legs) : legs \in SeqsUpTo(MapboxLegs, MaxLegs)}

OkResponse(routes) ==
    [ok |-> TRUE, status |-> 200,
     data |-> [code |-> "Ok", message |-> Nothing, routes |-> routes]]

\* what fetch resolves to: HTTP failures (whose body is not read), one of them
\* with a well-formed body, API-level errors with and without
\* a message, answers without routes, and answers whose first route is any
\* of MapboxRoutes, alone or followed by an alternative
Responses ==
    {[ok |-> FALSE, status |-> st,
      data |-> [code |-> "InvalidInput", message |-> Some("Not Authorized"),
                routes |-> Nothing]] : st \in {401, 422, 500}}
      \cup {[ok |-> FALSE, status |-> 502,
             data |-> [code |-> "Ok", message |-> Nothing,
                       routes |-> Some(<<MapboxRoute(<<>>)>>)]]}
      \cup {[ok |-> TRUE, status |-> 200,
             data |-> [code |-> "NoRoute", message |-> m, routes |-> Nothing]] :
                m \in {Nothing, Some(""), Some("No route found")}}
      \cup {OkResponse(Nothing), OkResponse(Some(<<>>))}
      \cup {OkResponse(Some(<<r>>)) : r \in MapboxRoutes}
      \cup {OkResponse(Some(<<r, MapboxRoute(<<>>)>>)) : r \in MapboxRoutes}

\* the parameters: a direct route and a loop through one waypoint
DirectionsParams ==
    {[start |-> <<1, 1>>, waypoints |-> <<>>, end |-> <<2, 2>>, profile |-> Nothing],
     [start |-> <<1, 1>>, waypoints |-> <<<<2, 2>>>>, end |-> <<1, 1>>,
      profile |-> Some("cycling")]}

DirIdle ==
    /\ dirPc = "idle"
    /\ dirToken = TRUE
    /\ dirUrl = Nothing
    /\ dirFetches = 0
    /\ dirResponse = Nothing
    /\ dirResult = Nothing
    /\ dirError = Nothing

DirInit ==
    /\ dirPc = "idle"
    /\ dirToken \in BOOLEAN
    /\ dirUrl = Nothing
    /\ dirFetches = 0
    /\ dirResponse = Nothing
    /\ dirResult = Nothing
    /\ dirError = Nothing

\* getDirections up to its first await: the token check and the request
GetDirectionsCall(params) ==
    /\ dirPc = "idle"
    /\ IF ~dirToken
       THEN /\ dirPc' = "threw"
            /\ dirError' = Some(<<"Missing NEXT_PUBLIC_MAPBOX_TOKEN environment variable">>)
            /\ UNCHANGED <<dirUrl, dirFetches>>
       ELSE /\ dirPc' = "fetching"
            /\ dirUrl' = Some(Url(params))
            /\ dirFetches' = dirFetches + 1
            /\ UNCHANGED dirError
    /\ UNCHANGED <<dirToken, dirResponse, dirResult>>
    /\ UNCHANGED <<trackVars, flowVars, fogVars, dbVars, sumVars, saveVars, polyVars, dashVars>>

\* fetch rejects (no connection): the rejection leaves getDirections
GetDirectionsFetchRejects ==
    /\ dirPc = "fetching"
    /\ dirPc' = "threw"
    /\ dirError' = Some(<<"fetch failed">>)
    /\ UNCHANGED <<dirToken, dirUrl, dirFetches, dirResponse, dirResult>>
    /\ UNCHANGED <<trackVars, flowVars, fogVars, dbVars, sumVars, saveVars, polyVars, dashVars>>

\* fetch resolves: the rest of getDirections runs to its throw or return
GetDirectionsResume(res) ==
    /\ dirPc = "fetching"
    /\ dirResponse' = Some(res)
    /\ IF ResponseError(res).defined
       THEN /\ dirPc' = "threw"
            /\ dirError' = ResponseError(res)
            /\ UNCHANGED dirResult
       ELSE /\ dirPc' = "returned"
            /\ dirResult' = Some(DirectionsResult(res))
            /\ UNCHANGED dirError
    /\ UNCHANGED <<dirToken, dirUrl, dirFetches>>
    /\ UNCHANGED <<trackVars, flowVars, fogVars, dbVars, sumVars, saveVars, polyVars, dashVars>>

-----------------------------------------------------------------------------
(* get_fog_summary and getUnclearedHexesSummary *)

\* SQL NULL
Null == [null |-> TRUE]
NotNull(v) == [null |-> FALSE, value |-> v]

\* COUNT(*) over the selected rows of a table (a sequence)
CountRows(selected) == Len(selected)

\* SELECT COUNT(*) FROM master_hexagons WHERE borough = p_borough
TotalHexes(p_borough) ==
    Cardinality({m \in masterHexagons : m.borough = p_borough})

\* the count of the user's cleared rows without the EXISTS condition
ClearedHexes_AnyBorough(p_user_id, p_borough) ==
    CountRows(SelectSeq(clearedHexagons, LAMBDA c : c.user_id = p_user_id))

\* SELECT COUNT(*) FROM cleared_hexagons c WHERE c.user_id = p_user_id
\*   AND EXISTS (SELECT 1 FROM master_hexagons m
\*               WHERE m.h3_index = c.h3_index AND m.borough = p_borough)
ClearedHexes(p_user_id, p_borough) ==
    CountRows(SelectSeq(clearedHexagons,
                        LAMBDA c : /\ c.user_id = p_user_id
                                   /\ \E m \in masterHexagons :
                                         /\ m.h3_index = c.h3_index
                                         /\ m.borough = p_borough))

\* ROUND((v_cleared::NUMERIC / NULLIF(v_total, 0)) * 100, 2), in hundredths:
\* NULLIF gives NULL for a zero total, and NULL propagates through / * ROUND
PercentComplete(v_cleared, v_total) ==
    IF v_total = 0 THEN Null
    ELSE NotNull(RoundDiv(v_cleared * 10000, v_total))

\* the JSON object get_fog_summary returns
get_fog_summary(p_user_id, p_borough) ==
    LET v_total   == TotalHexes(p_borough)
        v_cleared == ClearedHexes(p_user_id, p_borough)
    IN  [totalHexes      |-> v_total,
         clearedHexes    |-> v_cleared,
         unclearedHexes  |-> v_total - v_cleared,
         percentComplete |-> PercentComplete(v_cleared, v_total)]

\* SELECT m.h3_index FROM master_hexagons m WHERE m.borough = p_borough
\*   AND NOT EXISTS (SELECT 1 FROM cleared_hexagons c
\*                   WHERE c.h3_index = m.h3_index AND c.user_id = p_user_id)
\* the result rows, one per master row selected, in no particular order
get_uncleared_hex_list(p_user_id, p_borough) ==
    {m \in masterHexagons :
        /\ m.borough = p_borough
        /\ ~ \E k \in 1..Len(clearedHexagons) :
                /\ clearedHexagons[k].h3_index = m.h3_index
                /\ clearedHexagons[k].user_id = p_user_id}

\* the inventories and cleared-cell tables the calls run against
Boroughs == {"Brooklyn", "Queens"}
Users == {"u1", "u2"}
MaxCells == 3
H3Cells == 1..MaxCells

MasterInventories ==
    {{}} \cup {{[h3_index |-> c, borough |-> "Brooklyn"] : c \in 1..k} : k \in H3Cells}
         \cup {{[h3_index |-> c, borough |-> IF c = 1 THEN "Queens" ELSE "Brooklyn"] :
                    c \in H3Cells}}

ClearedRow(u, c) == [user_id |-> u, h3_index |-> c, h3_resolution |-> H3_RESOLUTION]

\* tables that satisfy the unique key (h3_index, user_id)
ClearedTables ==
    {t \in SeqsUpTo({ClearedRow(u, c) : u \in Users, c \in H3Cells}, 2) :
        NoDuplicates(t)}

DbInit ==
    /\ masterHexagons \in MasterInventories
    /\ clearedHexagons \in ClearedTables

DbIdle ==
    /\ masterHexagons = {}
    /\ clearedHexagons = <<>>

SumIdle ==
    /\ sumPc = "idle"
    /\ sumArgs = Nothing
    /\ sumRpcCalls = 0
    /\ sumResult = Nothing
    /\ sumError = Nothing

\* getUnclearedHexesSummary up to its await: the RPC request is sent
GetSummaryCall(userId, borough) ==
    /\ sumPc = "idle"
    /\ sumPc' = "awaiting"
    /\ sumArgs' = Some([userId |-> userId, borough |-> borough])
    /\ sumRpcCalls' = sumRpcCalls + 1
    /\ UNCHANGED <<sumResult, sumError>>
    /\ UNCHANGED <<trackVars, flowVars, fogVars, dirVars, dbVars, saveVars, polyVars, dashVars>>

\* the RPC reports an error: if (error) throw new Error(...)
GetSummaryRpcError ==
    /\ sumPc = "awaiting"
    /\ sumPc' = "threw"
    /\ sumError' = Some(<<"Failed to get fog summary">>)
    /\ UNCHANGED <<sumArgs, sumRpcCalls, sumResult>>
    /\ UNCHANGED <<trackVars, flowVars, fogVars, dirVars, dbVars, saveVars, polyVars, dashVars>>

\* the RPC answers: return data as FogSummary
GetSummaryResume ==
    /\ sumPc = "awaiting"
    /\ sumPc' = "returned"
    /\ sumResult' = Some(get_fog_summary(sumArgs.value.userId, sumArgs.value.borough))
    /\ UNCHANGED <<sumArgs, sumRpcCalls, sumError>>
    /\ UNCHANGED <<trackVars, flowVars, fogVars, dirVars, dbVars, saveVars, polyVars, dashVars>>

-----------------------------------------------------------------------------
(* saveHexagons, src/lib/actions/fogAnalysis.ts:268-293 *)

CHUNK_SIZE == 1000

\* the conflict target of the upsert: onConflict "h3_index,user_id"
ConflictKey(row) == <<row.h3_index, row.user_id>>

\* h3Indices.map(h3 => ({user_id, h3_index, h3_resolution}))
BuildRows(list, user) == [i \in 1..Len(list) |-> ClearedRow(user, list[i])]

\* no slicing: every upsert is handed all the rows
Chunk_AllRows(allRows, i) == allRows

\* rows.slice(i, i + CHUNK_SIZE)
Chunk(allRows, i) ==
    SubSeq(allRows, i + 1,
           IF i + CHUNK_SIZE < Len(allRows) THEN i + CHUNK_SIZE ELSE Len(allRows))

\* a plain insert into a table without a unique key: every row is appended
Upsert_AppendsAll(table, chunk) == table \o chunk

\* INSERT ... ON CONFLICT (h3_index, user_id) DO NOTHING: a row of the chunk is
\* appended unless the table, or an earlier row of the chunk, has its key
Upsert(table, chunk) ==
    LET taken   == {ConflictKey(table[k]) : k \in 1..Len(table)}
        indexed == [k \in 1..Len(chunk) |-> [k |-> k, row |-> chunk[k]]]
        fresh   == SelectSeq(indexed,
                       LAMBDA e : /\ ConflictKey(e.row) \notin taken
                                  /\ \A j \in 1..(e.k - 1) :
                                        ConflictKey(chunk[j]) # ConflictKey(e.row))
    IN  table \o [k \in 1..Len(fresh) |-> fresh[k].row]

LogEntry(outcome, table) ==
    [h3Indices |-> h3Indices, user |-> sessionUser, outcome |-> outcome,
     table |-> table]

MaxSaveCalls == 2

\* a list one entry longer than a chunk, going round the cells
LongUpload == [i \in 1..(CHUNK_SIZE + 1) |-> 1 + (i % MaxCells)]

\* the uploads: empty, single, several cells, a list with a repeated cell, and
\* a list that needs two chunks
Uploads == {<<>>, <<1>>, <<1, 2>>, <<2, 1, 2>>, <<3, 1>>, LongUpload}

SaveIdle ==
    /\ supabase = TRUE
    /\ sessionUser = Nothing
    /\ savePc = "idle"
    /\ h3Indices = <<>>
    /\ rows = <<>>
    /\ chunkStart = 0
    /\ saveError = Nothing
    /\ saveLog = <<>>
    /\ authLookups = 0
    /\ upsertCalls = <<>>

SaveInit ==
    /\ supabase \in BOOLEAN
    /\ sessionUser \in {Nothing} \cup {Some(u) : u \in Users}
    /\ savePc = "idle"
    /\ h3Indices = <<>>
    /\ rows = <<>>
    /\ chunkStart = 0
    /\ saveError = Nothing
    /\ saveLog = <<>>
    /\ authLookups = 0
    /\ upsertCalls = <<>>

\* saveHexagons up to its first await: the two checks, then auth.getUser()
SaveHexagonsStart(list) ==
    /\ savePc \in {"idle", "returned", "threw"}
    /\ Len(saveLog) < MaxSaveCalls
    /\ h3Indices' = list
    /\ rows' = <<>>
    /\ chunkStart' = 0
    /\ IF ~supabase
       THEN /\ savePc' = "threw"
            /\ saveError' = Some(<<"Supabase not configured">>)
            /\ saveLog' = Append(saveLog,
                   [h3Indices |-> list, user |-> sessionUser,
                    outcome |-> "threw", table |-> clearedHexagons])
       ELSE IF Len(list) = 0
       THEN /\ savePc' = "returned"
            /\ saveError' = Nothing
            /\ saveLog' = Append(saveLog,
                   [h3Indices |-> list, user |-> sessionUser,
                    outcome |-> "returned", table |-> clearedHexagons])
       ELSE /\ savePc' = "auth"
            /\ saveError' = Nothing
            /\ UNCHANGED saveLog
    /\ authLookups' = IF supabase /\ Len(list) > 0 THEN 1 ELSE 0
    /\ upsertCalls' = <<>>
    /\ UNCHANGED supabase

\* a call of saveHexagons by itself
SaveHexagonsCall(list) ==
    /\ SaveHexagonsStart(list)
    /\ UNCHANGED <<sessionUser, dbVars>>
    /\ UNCHANGED <<trackVars, flowVars, fogVars, dirVars, sumVars, polyVars, dashVars>>

\* auth.getUser() resolves: the user check, the rows, the loop's first test
SaveHexagonsAuth ==
    /\ savePc = "auth"
    /\ IF ~sessionUser.defined
       THEN /\ savePc' = "threw"
            /\ saveError' = Some(<<"Not authenticated">>)
            /\ saveLog' = Append(saveLog, LogEntry("threw", clearedHexagons))
            /\ UNCHANGED rows
       ELSE /\ savePc' = "upserting"
            /\ rows' = BuildRows(h3Indices, sessionUser.value)
            /\ UNCHANGED <<saveError, saveLog>>
    /\ UNCHANGED <<supabase, sessionUser, h3Indices, chunkStart, dbVars>>
    /\ UNCHANGED <<authLookups, upsertCalls>>
    /\ UNCHANGED <<trackVars, flowVars, fogVars, dirVars, sumVars, polyVars, dashVars>>

\* one upsert succeeds: the chunk is stored, i += CHUNK_SIZE, the loop test
SaveHexagonsUpsert ==
    /\ savePc = "upserting"
    /\ clearedHexagons' = Upsert(clearedHexagons, Chunk(rows, chunkStart))
    /\ chunkStart' = chunkStart + CHUNK_SIZE
    /\ IF chunkStart' < Len(rows)
       THEN UNCHANGED <<savePc, saveLog>>
       ELSE /\ savePc' = "returned"
            /\ saveLog' = Append(saveLog, LogEntry("returned", clearedHexagons'))
    /\ upsertCalls' = Append(upsertCalls, Chunk(rows, chunkStart))
    /\ UNCHANGED <<supabase, sessionUser, h3Indices, rows, saveError, masterHexagons>>
    /\ UNCHANGED authLookups
    /\ UNCHANGED <<trackVars, flowVars, fogVars, dirVars, sumVars, polyVars, dashVars>>

\* one upsert reports an error: if (error) throw error
SaveHexagonsUpsertError ==
    /\ savePc = "upserting"
    /\ savePc' = "threw"
    /\ saveError' = Some(<<"upsert failed">>)
    /\ saveLog' = Append(saveLog, LogEntry("threw", clearedHexagons))
    /\ upsertCalls' = Append(upsertCalls, Chunk(rows, chunkStart))
    /\ UNCHANGED <<supabase, sessionUser, h3Indices, rows, chunkStart, dbVars>>
    /\ UNCHANGED authLookups
    /\ UNCHANGED <<trackVars, flowVars, fogVars, dirVars, sumVars, polyVars, dashVars>>

-----------------------------------------------------------------------------
(* polygonToH3Indices and multiPolygonToH3Indices, src/unnamed/part_002:83-111 *)

\* the edge length of a cell at a resolution: H3 cells of resolution 9 have
\* edges of about 174 m, those of resolution 10 of about 66 m
EdgeMeters(resolution) == IF resolution = H3_RESOLUTION THEN HEX_EDGE_METERS ELSE 174

\* a cell index names its resolution and its place in that resolution's grid
CellIndex(resolution, q, r) == [res |-> resolution, q |-> q, r |-> r]

\* the centre of a cell as [lat, lng]
CellCentreLatLng(cell) ==
    LET e == EdgeMeters(cell.res)
    IN  <<((3 * e) \div 2) * cell.r, e * cell.q + (e \div 2) * cell.r>>

\* ring.map(([lng, lat]) => [lat, lng])
SwapLngLat(ring) == [k \in 1..Len(ring) |-> <<ring[k][2], ring[k][1]>>]

\* the edge from vertex a to vertex b crosses the ray that leaves the point p
\* towards greater longitudes (points and vertices are [lat, lng])
EdgeCrosses(p, a, b) ==
    /\ (a[1] > p[1]) # (b[1] > p[1])
    /\ IF b[1] > a[1]
       THEN (p[2] - a[2]) * (b[1] - a[1]) < (b[2] - a[2]) * (p[1] - a[1])
       ELSE (p[2] - a[2]) * (b[1] - a[1]) > (b[2] - a[2]) * (p[1] - a[1])

\* p lies inside the closed ring: it is crossed an odd number of times
InRing(p, ring) ==
    Cardinality({k \in 1..(Len(ring) - 1) : EdgeCrosses(p, ring[k], ring[k + 1])}) % 2 = 1

\* the part of the grid the polygons of the model lie in
GridQ == -3..9
GridR == -2..3

\* the cells in the library's output order: row by row
GridCells(resolution) ==
    [k \in 1..(Cardinality(GridQ) * Cardinality(GridR)) |->
        CellIndex(resolution,
                  -3 + ((k - 1) % Cardinality(GridQ)),
                  -2 + ((k - 1) \div Cardinality(GridQ)))]

\* h3-js polygonToCells(polygon, resolution, false): the cells whose centre is
\* inside the outer ring and outside every hole
polygonToCells(polygon, resolution) ==
    IF polygon = <<>> THEN <<>>
    ELSE SelectSeq(GridCells(resolution),
             LAMBDA cell :
                 /\ InRing(CellCentreLatLng(cell), polygon[1])
                 /\ \A h \in 2..Len(polygon) :
                       ~ InRing(CellCentreLatLng(cell), polygon[h]))

polygonToH3Indices(coords, resolution) ==
    polygonToCells([k \in 1..Len(coords) |-> SwapLngLat(coords[k])], resolution)

\* the per-polygon calls of the loop, each with the resolution it was given
PolygonCalls_DefaultResolution(coords, resolution) ==
    [k \in 1..Len(coords) |->
        [polygon |-> coords[k], resolution |-> H3_RESOLUTION,
         indices |-> polygonToH3Indices(coords[k], H3_RESOLUTION)]]

PolygonCalls(coords, resolution) ==
    [k \in 1..Len(coords) |->
        [polygon |-> coords[k], resolution |-> resolution,
         indices |-> polygonToH3Indices(coords[k], resolution)]]

\* indices.forEach(idx => allIndices.add(idx)) for every polygon, then
\* Array.from(allIndices)
RECURSIVE AddAllPolygons(_, _)
AddAllPolygons(acc, calls) ==
    IF calls = <<>> THEN acc
    ELSE AddAllPolygons(SetAddAll(acc, Head(calls).indices), Tail(calls))

multiPolygonToH3Indices(coords, resolution) ==
    AddAllPolygons(<<>>, PolygonCalls(coords, resolution))

-----------------------------------------------------------------------------
(* Polygon specification: the inputs of multiPolygonToH3Indices *)

\* a closed rectangular ring of [lng, lat] vertices
Rectangle(x1, x2, y1, y2) ==
    <<<<x1, y1>>, <<x2, y1>>, <<x2, y2>>, <<x1, y2>>, <<x1, y1>>>>

\* a block around the origin, a block overlapping it to the east, the first
\* block with a hole cut out of it, and a block far to the east
PolygonPool ==
    {<<Rectangle(-40, 170, -50, 150)>>,
     <<Rectangle(100, 300, -50, 150)>>,
     <<Rectangle(-40, 170, -50, 150), Rectangle(20, 110, 60, 140)>>,
     <<Rectangle(400, 500, -50, 50)>>}

MaxPolygons == 3

Resolutions == {H3_RESOLUTION - 1, H3_RESOLUTION}

PolyIdle ==
    /\ polyPc = "idle"
    /\ polyCoordinates = <<>>
    /\ polyResolution = H3_RESOLUTION
    /\ polyCalls = <<>>
    /\ allIndices = <<>>

PolyInit ==
    /\ polyPc = "input"
    /\ polyCoordinates \in SeqsUpTo(PolygonPool, MaxPolygons)
    /\ polyResolution \in Resolutions
    /\ polyCalls = <<>>
    /\ allIndices = <<>>

MultiPolygonToH3 ==
    /\ polyPc = "input"
    /\ polyCalls' = PolygonCalls(polyCoordinates, polyResolution)
    /\ allIndices' = multiPolygonToH3Indices(polyCoordinates, polyResolution)
    /\ polyPc' = "done"
    /\ UNCHANGED <<polyCoordinates, polyResolution>>
    /\ UNCHANGED <<trackVars, flowVars, fogVars, dirVars, dbVars, sumVars, saveVars, dashVars>>

-----------------------------------------------------------------------------
(* extractLineCoordinates, src/lib/h3.ts:55-75 *)

Feature(geometry) == [geometry |-> geometry]
LineString(line) == Feature(Some([type |-> "LineString", lines |-> <<line>>]))
MultiLineString(lines) == Feature(Some([type |-> "MultiLineString", lines |-> lines]))
PointFeature == Feature(Some([type |-> "Point", lines |-> <<>>]))
NoGeometry == Feature(Nothing)

RECURSIVE Concat(_)
Concat(lines) == IF lines = <<>> THEN <<>> ELSE Head(lines) \o Concat(Tail(lines))

\* what one feature pushes onto allCoords
FeatureCoords(feature) ==
    IF ~feature.geometry.defined THEN <<>>
    ELSE IF feature.geometry.value.type \in {"LineString", "MultiLineString"}
    THEN Concat(feature.geometry.value.lines)
    ELSE <<>>

extractLineCoordinates(featureCollection) ==
    Concat([k \in 1..Len(featureCollection) |-> FeatureCoords(featureCollection[k])])

-----------------------------------------------------------------------------
(* DashboardClient and GpxDropZone, src/components/ui/GpxDropZone.tsx *)

\* a track point without finite coordinates: latLngToCell throws on it
NotFinite == <<0 - 1000000, 0 - 1000000>>

\* trackToH3Indices(coordinates) throws
ConversionThrows(coords) == \E k \in 1..Len(coords) : coords[k] = NotFinite

\* Array.from(new Set(list)): the first occurrence of every member, in order
ArrayFromSet(list) ==
    LET indexed == [k \in 1..Len(list) |-> [k |-> k, member |-> list[k]]]
        first   == SelectSeq(indexed,
                       LAMBDA e : \A j \in 1..(e.k - 1) : list[j] # e.member)
    IN  [k \in 1..Len(first) |-> first[k].member]

\* Array.from(new Set(newIndices)) where the update merges with prev
MergeCleared_Replace(prev, newIndices) == ArrayFromSet(newIndices)

\* Array.from(new Set([...prev, ...newIndices]))
MergeCleared(prev, newIndices) == ArrayFromSet(prev \o newIndices)

\* isProcessing left as it is when the try block fails
ProcessingAfter_NoFinally(outcome) == outcome = "threw"

\* finally { setIsProcessing(false) }, whatever the try block did
ProcessingAfter(outcome) == FALSE

\* getUserHexagons(): select h3_index from cleared_hexagons, which gives the
\* rows the session's user may read, that is, the user's own rows
getUserHexagons(user) ==
    LET own == SelectSeq(clearedHexagons, LAMBDA row : row.user_id = user)
    IN  [k \in 1..Len(own) |-> own[k].h3_index]

\* what supabase.auth.getUser() gives for the session of the moment
getCurrentUser == sessionUser

MaxDrops == 2
MaxHexagonLoads == 2

TrackA == <<<<0, 0>>, <<0, 50>>>>
TrackB == <<<<0, 400>>, <<0, 450>>>>

\* the dropped files: features without a line, one line, two lines far apart
\* as two features and as one MultiLineString, and a line with a point that
\* is not finite
FeatureCollections ==
    {<<NoGeometry, PointFeature>>,
     <<LineString(TrackA)>>,
     <<LineString(TrackA), LineString(TrackB)>>,
     <<MultiLineString(<<TrackA, TrackB>>), PointFeature>>,
     <<LineString(<<<<0, 0>>, NotFinite>>)>>}

\* the cleared-cell tables the dashboard starts with
DashTables ==
    {<<>>, <<ClearedRow("u1", <<5, 5>>), ClearedRow("u2", <<0, 0>>)>>}

\* the user who signs in at this browser
DashUsers == {"u1"}

DashIdle ==
    /\ activityData = Nothing
    /\ clearedState = <<>>
    /\ isProcessing = FALSE
    /\ isAuthenticated = FALSE
    /\ userLookup = FALSE
    /\ hexagonLoads = <<>>
    /\ dropped = Nothing
    /\ upload = Nothing
    /\ gpxLoads = 0
    /\ saveCalls = 0

\* after the first render and the effect: the states hold their initial
\* values, loadHexagons awaits getCurrentUser() and the listener is subscribed
DashInit ==
    /\ SaveInit
    /\ sessionUser \in {Nothing} \cup {Some(u) : u \in DashUsers}
    /\ masterHexagons = {}
    /\ clearedHexagons \in DashTables
    /\ activityData = Nothing
    /\ clearedState = <<>>
    /\ isProcessing = FALSE
    /\ isAuthenticated = FALSE
    /\ userLookup = supabase
    /\ hexagonLoads = <<>>
    /\ dropped = Nothing
    /\ upload = Nothing
    /\ gpxLoads = 0
    /\ saveCalls = 0

\* what the dashboard actions leave alone besides their own variables
DashFrame == UNCHANGED <<trackVars, flowVars, fogVars, dirVars, sumVars, polyVars>>

\* loadHexagons after getCurrentUser() resolved: setIsAuthenticated(!!user)
\* and, with a user, the call of getUserHexagons up to its await
LoadHexagonsUser ==
    /\ userLookup
    /\ getCurrentUser.defined => Len(hexagonLoads) < MaxHexagonLoads
    /\ userLookup' = FALSE
    /\ isAuthenticated' = getCurrentUser.defined
    /\ hexagonLoads' = IF getCurrentUser.defined
                       THEN Append(hexagonLoads, getCurrentUser.value)
                       ELSE hexagonLoads
    /\ UNCHANGED <<activityData, clearedState, isProcessing, dropped, upload,
                   gpxLoads, saveCalls>>
    /\ UNCHANGED <<saveVars, dbVars>>
    /\ DashFrame

\* a sign-in reaches the onAuthStateChange listener: setIsAuthenticated(true)
\* and the call of getUserHexagons up to its await
AuthSignIn(user) ==
    /\ supabase
    /\ ~sessionUser.defined
    /\ Len(hexagonLoads) < MaxHexagonLoads
    /\ sessionUser' = Some(user)
    /\ isAuthenticated' = TRUE
    /\ hexagonLoads' = Append(hexagonLoads, user)
    /\ UNCHANGED <<activityData, clearedState, isProcessing, userLookup, dropped,
                   upload, gpxLoads, saveCalls>>
    /\ UNCHANGED <<supabase, savePc, h3Indices, rows, chunkStart, saveError,
                   saveLog, authLookups, upsertCalls, dbVars>>
    /\ DashFrame

\* a sign-out reaches the listener: setIsAuthenticated(false) and
\* setClearedHexagons([])
AuthSignOut ==
    /\ supabase
    /\ sessionUser.defined
    /\ sessionUser' = Nothing
    /\ isAuthenticated' = FALSE
    /\ clearedState' = <<>>
    /\ UNCHANGED <<activityData, isProcessing, userLookup, hexagonLoads, dropped,
                   upload, gpxLoads, saveCalls>>
    /\ UNCHANGED <<supabase, savePc, h3Indices, rows, chunkStart, saveError,
                   saveLog, authLookups, upsertCalls, dbVars>>
    /\ DashFrame

\* the k-th pending getUserHexagons() resolves: setClearedHexagons(hexagons)
GetUserHexagonsResolves(k) ==
    /\ k \in 1..Len(hexagonLoads)
    /\ clearedState' = getUserHexagons(hexagonLoads[k])
    /\ hexagonLoads' = SubSeq(hexagonLoads, 1, k - 1)
                          \o SubSeq(hexagonLoads, k + 1, Len(hexagonLoads))
    /\ UNCHANGED <<activityData, isProcessing, isAuthenticated, userLookup,
                   dropped, upload, gpxLoads, saveCalls>>
    /\ UNCHANGED <<saveVars, dbVars>>
    /\ DashFrame

\* the k-th pending getUserHexagons() rejects: the error is logged
GetUserHexagonsRejects(k) ==
    /\ k \in 1..Len(hexagonLoads)
    /\ hexagonLoads' = SubSeq(hexagonLoads, 1, k - 1)
                          \o SubSeq(hexagonLoads, k + 1, Len(hexagonLoads))
    /\ UNCHANGED <<activityData, clearedState, isProcessing, isAuthenticated,
                   userLookup, dropped, upload, gpxLoads, saveCalls>>
    /\ UNCHANGED <<saveVars, dbVars>>
    /\ DashFrame

\* handleDrop up to await gpxFile.text(): the running handler keeps the
\* onDataLoaded of its render, a handleGpxLoaded made with the isAuthenticated
\* of that render (useCallback with [isAuthenticated])
HandleDrop(data) ==
    /\ ~dropped.defined
    /\ ~upload.defined
    /\ gpxLoads < MaxDrops
    /\ dropped' = Some([data |-> data, isAuthenticated |-> isAuthenticated])
    /\ UNCHANGED <<activityData, clearedState, isProcessing, isAuthenticated,
                   userLookup, hexagonLoads, upload, gpxLoads, saveCalls>>
    /\ UNCHANGED <<saveVars, dbVars>>
    /\ DashFrame

\* the file is read and parsed: onDataLoaded(geojson), that is handleGpxLoaded
\* up to its await of saveHexagons, or to its end when it does not get there
HandleGpxLoaded ==
    /\ dropped.defined
    /\ LET data        == dropped.value.data
           coords      == extractLineCoordinates(data)
       IN  /\ activityData' = Some(data)
           /\ gpxLoads' = gpxLoads + 1
           /\ dropped' = Nothing
           /\ IF ~dropped.value.isAuthenticated
              THEN UNCHANGED <<isProcessing, upload, saveCalls, saveVars>>
              ELSE IF Len(coords) = 0
              THEN /\ isProcessing' = ProcessingAfter("returned")
                   /\ UNCHANGED <<upload, saveCalls, saveVars>>
              ELSE IF ConversionThrows(coords)
              THEN /\ isProcessing' = ProcessingAfter("threw")
                   /\ UNCHANGED <<upload, saveCalls, saveVars>>
              ELSE /\ isProcessing' = TRUE
                   /\ upload' = Some(trackToH3Indices(coords))
                   /\ saveCalls' = saveCalls + 1
                   /\ SaveHexagonsStart(trackToH3Indices(coords))
                   /\ UNCHANGED sessionUser
    /\ UNCHANGED <<clearedState, isAuthenticated, userLookup, hexagonLoads>>
    /\ UNCHANGED dbVars
    /\ DashFrame

\* saveHexagons has settled: the merge into clearedHexagons when it resolved,
\* the catch when it rejected, and the finally
HandleGpxResume ==
    /\ upload.defined
    /\ savePc \in {"returned", "threw"}
    /\ clearedState' = IF savePc = "returned"
                       THEN MergeCleared(clearedState, upload.value)
                       ELSE clearedState
    /\ isProcessing' = ProcessingAfter(savePc)
    /\ upload' = Nothing
    /\ UNCHANGED <<activityData, isAuthenticated, userLookup, hexagonLoads,
                   dropped, gpxLoads, saveCalls>>
    /\ UNCHANGED <<saveVars, dbVars>>
    /\ DashFrame

-----------------------------------------------------------------------------
(* Specifications: one per component; the other components stay idle *)

TrackIdle ==
    /\ coordinates = <<>>
    /\ emitted = <<>>
    /\ indices = <<>>
    /\ trackPc = "idle"

FlowIdle ==
    /\ steps = <<>>
    /\ distance = 0
    /\ flowScore = Undefined
    /\ flowPc = "idle"

\* every component but the named ones is idle
IdleBut(active) ==
    /\ "track" \in active \/ TrackIdle
    /\ "flow" \in active \/ FlowIdle
    /\ "fog" \in active \/ FogIdle
    /\ "dir" \in active \/ DirIdle
    /\ "db" \in active \/ DbIdle
    /\ "sum" \in active \/ SumIdle
    /\ "save" \in active \/ SaveIdle
    /\ "poly" \in active \/ PolyIdle
    /\ "dash" \in active \/ DashIdle

InitTrack == IdleBut({"track"}) /\ TrackInit
NextTrack == TrackToH3 /\ UNCHANGED <<flowVars, fogVars, dirVars, dbVars, sumVars, saveVars, polyVars, dashVars>>
SpecTrack == InitTrack /\ [][NextTrack]_vars

InitFlow == IdleBut({"flow"}) /\ FlowInit
NextFlow == CalculateFlowScore /\ UNCHANGED <<trackVars, fogVars, dirVars, dbVars, sumVars, saveVars, polyVars, dashVars>>
SpecFlow == InitFlow /\ [][NextFlow]_vars

InitRescore == IdleBut({"flow"}) /\ RescoreInit
NextRescore ==
    \/ CalculateFlowScore
          /\ UNCHANGED <<trackVars, fogVars, dirVars, dbVars, sumVars, saveVars, polyVars, dashVars>>
    \/ CalculateFlowScoreLonger
          /\ UNCHANGED <<trackVars, fogVars, dirVars, dbVars, sumVars, saveVars, polyVars, dashVars>>
SpecRescore == InitRescore /\ [][NextRescore]_vars

InitFog == IdleBut({})
NextFog ==
    \/ \E call \in FogCalls : GetFogZonesCall(call)
    \/ GetFogZonesRpcError
    \/ \E data \in ProviderLists : GetFogZonesResume(data)
SpecFog == InitFog /\ [][NextFog]_vars

InitRerun == IdleBut({})
NextRerun ==
    \/ \E call \in FogCalls : GetFogZonesCall(call)
    \/ \E data \in PatchAnswers : GetFogZonesResume(data)
    \/ GetFogZonesAgain
SpecRerun == InitRerun /\ [][NextRerun]_vars

InitDirections == IdleBut({"dir"}) /\ DirInit
NextDirections ==
    \/ \E params \in DirectionsParams : GetDirectionsCall(params)
    \/ GetDirectionsFetchRejects
    \/ \E res \in Responses : GetDirectionsResume(res)
SpecDirections == InitDirections /\ [][NextDirections]_vars

InitSummary == IdleBut({"db"}) /\ DbInit
NextSummary ==
    \/ \E u \in Users, b \in Boroughs : GetSummaryCall(u, b)
    \/ GetSummaryRpcError
    \/ GetSummaryResume
SpecSummary == InitSummary /\ [][NextSummary]_vars

\* tables of at most one row, for the uploads
SmallTables == {t \in ClearedTables : Len(t) <= 1}

InitSave == IdleBut({"db", "save"}) /\ masterHexagons = {}
                /\ clearedHexagons \in SmallTables /\ SaveInit
NextSave ==
    \/ \E list \in Uploads : SaveHexagonsCall(list)
    \/ SaveHexagonsAuth
    \/ SaveHexagonsUpsert
    \/ SaveHexagonsUpsertError
SpecSave == InitSave /\ [][NextSave]_vars

InitPolygon == IdleBut({"poly"}) /\ PolyInit
NextPolygon == MultiPolygonToH3
SpecPolygon == InitPolygon /\ [][NextPolygon]_vars

InitDashboard == IdleBut({"db", "save", "dash"}) /\ DashInit
NextDashboard ==
    \/ LoadHexagonsUser
    \/ \E user \in DashUsers : AuthSignIn(user)
    \/ AuthSignOut
    \/ \E k \in 1..MaxHexagonLoads : GetUserHexagonsResolves(k)
    \/ \E k \in 1..MaxHexagonLoads : GetUserHexagonsRejects(k)
    \/ \E data \in FeatureCollections : HandleDrop(data)
    \/ HandleGpxLoaded
    \/ SaveHexagonsAuth
    \/ SaveHexagonsUpsert
    \/ SaveHexagonsUpsertError
    \/ HandleGpxResume
SpecDashboard == InitDashboard /\ [][NextDashboard]_vars

\* every pending saveHexagons settles and every settled one is resumed
FairDashboard ==
    /\ SpecDashboard
    /\ WF_vars(SaveHexagonsAuth)
    /\ WF_vars(SaveHexagonsUpsert \/ SaveHexagonsUpsertError)
    /\ WF_vars(HandleGpxResume)

\* the three calls that depend on an external collaborator, side by side
FailingResponses == {res \in Responses : ~res.ok \/ res.data.code # "Ok"
                                           \/ ~res.data.routes.defined}
ProviderResponses ==
    FailingResponses
      \cup {OkResponse(Some(<<>>)), OkResponse(Some(<<MapboxRoute(<<>>)>>))}
ProviderAnswers == {<<>>, Patch(<<0, 0>>, Dense)}

InitProviders == IdleBut({"dir"}) /\ DirInit
NextProviders ==
    \/ \E call \in FogCalls : GetFogZonesCall(call)
    \/ GetFogZonesRpcError
    \/ \E data \in ProviderAnswers : GetFogZonesResume(data)
    \/ \E u \in Users, b \in Boroughs : GetSummaryCall(u, b)
    \/ GetSummaryRpcError
    \/ GetSummaryResume
    \/ \E params \in DirectionsParams : GetDirectionsCall(params)
    \/ GetDirectionsFetchRejects
    \/ \E res \in ProviderResponses : GetDirectionsResume(res)
SpecProviders == InitProviders /\ [][NextProviders]_vars

-----------------------------------------------------------------------------
(* Claims about trackToH3Indices *)

FirstCell == latLngToCell(coordinates[1])
LastCell == latLngToCell(coordinates[Len(coordinates)])

\* the number of indices.add calls of the finished call
RECURSIVE TotalLen(_)
TotalLen(ss) == IF ss = <<>> THEN 0 ELSE Len(Head(ss)) + TotalLen(Tail(ss))

\* C1: for every non-empty track the returned list has no duplicate cell and
\* contains the cell of the first point and the cell of the last point.
C1_SetWithEndpoints ==
    (trackPc = "done" /\ Len(coordinates) > 0) =>
        /\ NoDuplicates(indices)
        /\ FirstCell \in Range(indices)
        /\ LastCell \in Range(indices)

\* a finished call on a track that ends in another cell than it starts in and
\* that added some cell more than once
C1_Witness ==
    /\ trackPc = "done"
    /\ Len(coordinates) = MaxTrackLen
    /\ FirstCell # LastCell
    /\ TotalLen(emitted) > Len(indices)

\* the cells of segment i in emission order: start cell, interpolated cells,
\* end cell (the first cell the next iteration, or the final add, emits)
SegmentCells(i) == emitted[i] \o <<emitted[i + 1][1]>>

\* the segments whose end points are farther apart than the 50 m threshold
LongSegments ==
    {i \in 1..(Len(coordinates) - 1) :
        DistSq(coordinates[i], coordinates[i + 1]) > MAX_GAP_METERS * MAX_GAP_METERS}

\* C2 as stated: in every segment longer than the gap threshold no two
\* consecutive emitted cells have centres farther apart than the threshold.
C2_CentresWithinGap ==
    trackPc = "done" =>
        \A i \in LongSegments :
            \A k \in 1..(Len(SegmentCells(i)) - 1) :
                DistSq(cellToLatLng(SegmentCells(i)[k]),
                       cellToLatLng(SegmentCells(i)[k + 1]))
                    <= MAX_GAP_METERS * MAX_GAP_METERS

\* C2 amended: in every segment longer than the gap threshold any two
\* consecutive emitted cells are the same cell or adjacent cells (at most one
\* grid step, one cell spacing between centres): no cell is skipped.
C2_NoSkippedCell ==
    trackPc = "done" =>
        \A i \in LongSegments :
            \A k \in 1..(Len(SegmentCells(i)) - 1) :
                HexSteps(SegmentCells(i)[k], SegmentCells(i)[k + 1]) <= 1

\* a finished call with a long segment whose end cell is not adjacent to its
\* start cell, so that only the interpolated cells connect them
C2_Witness ==
    /\ trackPc = "done"
    /\ \E i \in LongSegments :
          /\ Len(emitted[i]) > 2
          /\ HexSteps(emitted[i][1], emitted[i + 1][1]) >= 2


\* the cell whose centre is at least as near to p as the centres around it
Contains(cell, p) ==
    \A dq, dr \in -1..1 :
        DistSq(p, cellToLatLng(cell))
            <= DistSq(p, cellToLatLng(<<cell[1] + dq, cell[2] + dr>>))

\* C19: an empty track gives an empty cell list; a track of one point gives
\* exactly one cell, the cell that contains the point
C19_EmptyAndSinglePoint ==
    trackPc = "done" =>
        /\ Len(coordinates) = 0 => indices = <<>>
        /\ Len(coordinates) = 1 =>
              /\ Len(indices) = 1
              /\ indices[1] = latLngToCell(coordinates[1])
              /\ Contains(indices[1], coordinates[1])

\* a single point away from the origin cell has been converted
C19_Witness ==
    /\ trackPc = "done"
    /\ Len(coordinates) = 1
    /\ Len(indices) = 1
    /\ indices[1] # <<0, 0>>

\* the number of intervals the samples of segment i divide it into
Intervals(i) == Len(emitted[i])

\* C22: a segment is interpolated only when its end points are more than 50 m
\* apart (a gap of exactly 50 m gets no interpolated point); then the number
\* of intervals is ceil(dist / 50), the interior samples are the points at
\* the fractions j / steps for j = 1 .. steps - 1, and consecutive samples,
\* end points included, are at most 50 m apart.
C22_InterpolationSteps ==
    trackPc = "done" =>
        \A i \in 1..(Len(coordinates) - 1) :
            LET d2 == DistSq(coordinates[i], coordinates[i + 1])
                g2 == MAX_GAP_METERS * MAX_GAP_METERS
                n  == Intervals(i)
            IN  /\ d2 <= g2 => n = 1
                /\ d2 > g2 => n >= 2
                /\ n * n * g2 >= d2
                /\ n > 1 => (n - 1) * (n - 1) * g2 < d2
                /\ emitted[i][1] = latLngToCell(coordinates[i])
                /\ \A j \in 1..(n - 1) :
                      emitted[i][j + 1]
                          = CellOfScaled(
                                n * coordinates[i][1]
                                  + j * (coordinates[i + 1][1] - coordinates[i][1]),
                                n * coordinates[i][2]
                                  + j * (coordinates[i + 1][2] - coordinates[i][2]),
                                n)

\* a finished track with a gap of exactly 50 m, left alone, and a gap of
\* 50 * sqrt(3) m, which is not a multiple of 50 m, cut into two intervals
C22_Witness ==
    /\ trackPc = "done"
    /\ \E i \in 1..(Len(coordinates) - 1) :
          /\ DistSq(coordinates[i], coordinates[i + 1])
                = MAX_GAP_METERS * MAX_GAP_METERS
          /\ Intervals(i) = 1
    /\ \E i \in 1..(Len(coordinates) - 1) :
          /\ DistSq(coordinates[i], coordinates[i + 1])
                = 3 * MAX_GAP_METERS * MAX_GAP_METERS
          /\ Intervals(i) = 2

-----------------------------------------------------------------------------
(* Claims about calculateFlowScore *)

TurnTypes == {"turn", "end of road", "rotary", "roundabout"}

\* the modifiers of the model that contain "left" or "right" in some case
DirectionalTexts == {LEFT_, RIGHT_, SLIGHT_LEFT_, SHARP_RIGHT_UPPER_}

CountedAsClaimed(step) ==
    \/ step.type \in TurnTypes
    \/ /\ step.type = "new name"
       /\ step.modifier.defined
       /\ step.modifier.text \in DirectionalTexts

\* C9: turnCount is the number of steps whose type is turn, end of road,
\* rotary or roundabout, or whose type is new name with a modifier containing
\* left or right in any case; no other step is counted.
C9_TurnCount ==
    flowPc = "done" =>
        flowScore.turnCount =
            Cardinality({i \in 1..Len(steps) : CountedAsClaimed(steps[i])})

\* a scored list with an upper-case directional name change, which counts,
\* and a merge with a left modifier, which does not
C9_Witness ==
    /\ flowPc = "done"
    /\ flowScore.turnCount = 1
    /\ \E i, j \in 1..Len(steps) :
          /\ steps[i] = Maneuver("new name", Modifier(SHARP_RIGHT_UPPER_))
          /\ steps[j] = Maneuver("merge", Modifier(SLIGHT_LEFT_))

\* C10: with distance 0 turnsPerKm is 0 whatever the steps; with a positive
\* distance turnsPerKm (in hundredths) is the hundredth nearest to
\* turnCount / (distance / 1000), halves rounded up.
C10_TurnsPerKm ==
    flowPc = "done" =>
        /\ distance = 0 => flowScore.turnsPerKm = 0
        /\ distance > 0 =>
              /\ 2 * flowScore.turnsPerKm * distance - distance
                    <= 2 * 100000 * flowScore.turnCount
              /\ 2 * 100000 * flowScore.turnCount
                    < 2 * flowScore.turnsPerKm * distance + distance

\* a zero-length route with turns in it has been scored
C10_Witness ==
    /\ flowPc = "done"
    /\ distance = 0
    /\ flowScore.turnCount > 1
    /\ flowScore.flowPenalty = 1000

\* C11: flowPenalty lies in [0,1]; it is 1.0 when turnsPerKm < 3, 0.0 when
\* turnsPerKm > 12, and 1.0 - (turnsPerKm - 3) / 9 rounded to 3 decimals in
\* between, for turnsPerKm = turnCount / distanceKm (0 at distance 0); 20 turns
\* over 20,000 m give 1.0, 15 over 1,000 m give 0.0, 20 over 5,000 m give 0.889
C11_FlowPenalty ==
    flowPc = "done" =>
        LET t == flowScore.turnCount
            p == flowScore.flowPenalty
        IN  /\ 0 <= p /\ p <= 1000
            /\ (distance = 0 \/ 1000 * t < 3 * distance) => p = 1000
            /\ (distance > 0 /\ 1000 * t > 12 * distance) => p = 0
            /\ (distance > 0 /\ 3 * distance <= 1000 * t
                             /\ 1000 * t <= 12 * distance) =>
                  2 * Abs(p * 9 * distance - 1000 * (12 * distance - 1000 * t))
                      <= 9 * distance
            /\ (t = 20 /\ distance = 20000) => p = 1000
            /\ (t = 15 /\ distance = 1000) => p = 0
            /\ (t = 20 /\ distance = 5000) => p = 889

\* 20 turns over 5 km: 4 turns/km, inside the interpolated range
C11_Witness ==
    /\ flowPc = "done"
    /\ flowScore.turnCount = 20
    /\ distance = 5000
    /\ flowScore.flowPenalty = 889

\* C30: over a fixed positive distance the penalty of a route with more turn
\* steps is never higher than that of the same route with fewer, and the
\* thresholds are met without a jump: exactly 3 turns/km score 1.0, exactly
\* 12 turns/km score 0.0
C30_MonotoneAndContinuous ==
    /\ [][(flowPc = "done" /\ flowPc' = "done" /\ distance > 0
              /\ flowScore'.turnCount >= flowScore.turnCount)
            => flowScore'.flowPenalty <= flowScore.flowPenalty]_vars
    /\ [](flowPc = "done" /\ distance > 0 =>
            /\ 1000 * flowScore.turnCount = 3 * distance
                  => flowScore.flowPenalty = 1000
            /\ 1000 * flowScore.turnCount = 12 * distance
                  => flowScore.flowPenalty = 0)

\* a route scored again and again until it has exactly 12 turns over 1 km,
\* having passed 3 turns/km on the way
C30_Witness ==
    /\ flowPc = "done"
    /\ distance = 1000
    /\ flowScore.turnCount = 12
    /\ flowScore.flowPenalty = 0

-----------------------------------------------------------------------------
(* Claims about getDirections (SpecDirections) *)

ChosenLegs == dirResponse.value.data.routes.value[1].legs

\* the number of steps in the legs before leg l
RECURSIVE StepsBefore(_, _)
StepsBefore(legs, l) ==
    IF l <= 1 THEN 0 ELSE StepsBefore(legs, l - 1) + Len(legs[l - 1].steps)

SameStep(routeStep, mapboxStep) ==
    /\ routeStep.instruction = mapboxStep.maneuver.instruction
    /\ routeStep.maneuver.type = mapboxStep.maneuver.type
    /\ routeStep.maneuver.modifier = mapboxStep.maneuver.modifier
    /\ routeStep.maneuver.location = mapboxStep.maneuver.location
    /\ routeStep.distance = mapboxStep.distance
    /\ routeStep.duration = mapboxStep.duration

\* C12: the returned steps are the steps of all legs of the first route,
\* concatenated in leg order: their number is the sum of the legs' step counts
\* and the k-th step of leg l stands right after all steps of the legs before l
C12_AllLegsFlattened ==
    dirPc = "returned" =>
        /\ Len(dirResult.value.steps) = StepsBefore(ChosenLegs, Len(ChosenLegs) + 1)
        /\ \A l \in 1..Len(ChosenLegs) :
              \A k \in 1..Len(ChosenLegs[l].steps) :
                  SameStep(dirResult.value.steps[StepsBefore(ChosenLegs, l) + k],
                           ChosenLegs[l].steps[k])

\* a loop through one waypoint: two different legs, both ending in "arrive"
C12_Witness ==
    /\ dirPc = "returned"
    /\ Len(dirUrl.value.points) = 3
    /\ Len(ChosenLegs) = 2
    /\ ChosenLegs[1] # ChosenLegs[2]
    /\ \A l \in 1..2 :
          /\ Len(ChosenLegs[l].steps) = MaxLegSteps
          /\ ChosenLegs[l].steps[MaxLegSteps].maneuver.type = "arrive"
    /\ Cardinality({k \in 1..Len(dirResult.value.steps) :
                      dirResult.value.steps[k].maneuver.type = "arrive"}) = 2

-----------------------------------------------------------------------------
(* Claims about failing collaborators (SpecProviders) *)

FailedResponse(res) ==
    \/ ~res.ok
    \/ res.data.code # "Ok"
    \/ ~res.data.routes.defined
    \/ res.data.routes.value = <<>>

\* C13: a failure of a collaborator (an RPC error in getUnclearedHexes or
\* getUnclearedHexesSummary; a non-OK status, a code other than "Ok" or an
\* empty route list in getDirections) ends the call with a thrown error and no
\* result; no call sends more than one request; getFogZones that met a provider
\* failure has thrown and has built and returned no zone
C13_ProviderFailureThrows ==
    /\ rpcCalls <= 1 /\ sumRpcCalls <= 1 /\ dirFetches <= 1
    /\ fogPc = "threw" =>
          /\ rpcCalls = 1
          /\ dbscanRuns = 0 /\ fogZones = <<>> /\ fogResult = <<>>
    /\ sumPc = "threw" =>
          /\ sumRpcCalls = 1
          /\ sumError.defined /\ ~sumResult.defined
    /\ (dirResponse.defined /\ FailedResponse(dirResponse.value)) =>
          /\ dirPc = "threw"
          /\ dirFetches = 1
          /\ dirError.defined /\ ~dirResult.defined
    /\ dirPc = "threw" => ~dirResult.defined
    /\ dirPc = "returned" => ~dirError.defined

\* all three calls have failed, getDirections on a non-OK status
C13_Witness ==
    /\ fogPc = "threw"
    /\ sumPc = "threw"
    /\ dirPc = "threw"
    /\ dirResponse.defined
    /\ ~dirResponse.value.ok

-----------------------------------------------------------------------------
(* Claims about get_fog_summary (SpecSummary) *)

\* C14: when the borough's master inventory has zero cells, the coverage
\* percent of the summary is the defined value 0
C14_ZeroInventoryPercent ==
    (sumPc = "returned" /\ TotalHexes(sumArgs.value.borough) = 0) =>
        sumResult.value.percentComplete = NotNull(0)

\* C28: for every master inventory and cleared-cell table the summary agrees
\* with the list: unclearedHexes is the number of rows get_uncleared_hex_list
\* returns for the same user and borough, and 0 <= clearedHexes <= totalHexes
C28_SummaryAgreesWithList ==
    sumPc = "returned" =>
        LET summary == sumResult.value
            list    == get_uncleared_hex_list(sumArgs.value.userId,
                                              sumArgs.value.borough)
        IN  /\ summary.unclearedHexes = Cardinality(list)
            /\ 0 <= summary.clearedHexes
            /\ summary.clearedHexes <= summary.totalHexes

\* a summary with cleared and uncleared cells, over a table that also holds a
\* row the summary must not count
C28_Witness ==
    /\ sumPc = "returned"
    /\ sumResult.value.clearedHexes = 1
    /\ sumResult.value.unclearedHexes >= 1
    /\ Len(clearedHexagons) = 2

-----------------------------------------------------------------------------
(* Fog claims (SpecFog) *)

Returned == fogPc = "returned"
Within(userHex, hex) ==
    /\ ~gridDistance(userHex, hex).threw
    /\ gridDistance(userHex, hex).value <= searchRadius
PositionIn(seq, x) == CHOOSE i \in 1..Len(seq) : seq[i] = x

\* C3: the pre-filter keeps exactly the uncleared cells whose gridDistance from
\* the user's cell is defined and at most the search radius, in input order; a
\* cell whose gridDistance fails is dropped and getFogZones still returns
C3_PreFilterExact ==
    /\ (Returned /\ allUnclearedHexes # <<>>) =>
          LET userHex == latLngToCell(userLocation)
          IN  /\ Range(nearbyHexes) =
                    {h \in Range(allUnclearedHexes) : Within(userHex, h)}
              /\ NoDuplicates(nearbyHexes)
              /\ \A i, j \in 1..Len(nearbyHexes) :
                    i < j => PositionIn(allUnclearedHexes, nearbyHexes[i])
                                < PositionIn(allUnclearedHexes, nearbyHexes[j])
    /\ fogPc = "threw" => allUnclearedHexes = <<>>

C3_Witness ==
    /\ Returned
    /\ nearbyHexes # <<>>
    /\ \E h \in Range(allUnclearedHexes) :
          gridDistance(latLngToCell(userLocation), h).threw
    /\ \E h \in Range(allUnclearedHexes) :
          /\ ~gridDistance(latLngToCell(userLocation), h).threw
          /\ gridDistance(latLngToCell(userLocation), h).value > searchRadius

\* C4: every returned zone has hexCount of at least minPoints (20)
C4_HexCountAtLeastMinPoints ==
    Returned =>
        \A k \in 1..Len(fogResult) : fogResult[k].hexCount >= DBSCAN_MIN_POINTS

\* C5: the returned list is in non-increasing priorityScore order, has at most
\* maxZones (20) entries, and no zone left out has a strictly higher
\* priorityScore than a returned one
C5_RankedAndTruncated ==
    Returned =>
        /\ \A k \in 1..(Len(fogResult) - 1) :
              fogResult[k].priorityScore >= fogResult[k + 1].priorityScore
        /\ Len(fogResult) <= MAX_ZONES_RETURNED
        /\ Range(fogResult) \subseteq Range(fogZones)
        /\ \A z \in Range(fogZones) \ Range(fogResult) :
              \A r \in Range(fogResult) : z.priorityScore <= r.priorityScore

C5_Witness ==
    /\ Returned
    /\ Len(fogZones) > MAX_ZONES_RETURNED
    /\ Len(fogResult) = MAX_ZONES_RETURNED
    /\ \E k \in 1..(Len(fogZones) - 1) :
          fogZones[k].priorityScore < fogZones[k + 1].priorityScore
    /\ \E z \in Range(fogZones) \ Range(fogResult) :
          z.priorityScore < fogResult[Len(fogResult)].priorityScore

\* C6: in every returned zone priorityScore is hexCount / (distanceFromUser + 1)
\* rounded to 2 decimals, for the hexCount and distanceFromUser of that record
C6_PriorityFromRecord ==
    Returned =>
        \A k \in 1..Len(fogResult) :
            fogResult[k].priorityScore =
                RoundDiv(fogResult[k].hexCount * 10000,
                         fogResult[k].distanceFromUser + 100)

PairwiseClose(hexes) ==
    \A i, j \in 1..Len(hexes) :
        DistSq(cellToLatLng(hexes[i]), cellToLatLng(hexes[j]))
            <= DBSCAN_MAX_DISTANCE_METERS * DBSCAN_MAX_DISTANCE_METERS

\* C7: when the nearby cells are n >= minPoints points all within 0.5 km of each
\* other, exactly one zone is returned, with hexCount n and priorityScore
\* n / (d + 1) rounded to 2 decimals for the distance d of its centroid
C7_SingleCompactZone ==
    (Returned /\ Len(nearbyHexes) >= DBSCAN_MIN_POINTS /\ PairwiseClose(nearbyHexes)) =>
        /\ Len(fogResult) = 1
        /\ fogResult[1].hexCount = Len(nearbyHexes)
        /\ LET d == DistanceMeters(userLocation, fogResult[1].centroid)
               n == Len(nearbyHexes)
           IN  2 * Abs(n * 100000 - fogResult[1].priorityScore * (d + 1000))
                  <= d + 1000

C7_Witness ==
    /\ Returned
    /\ Len(nearbyHexes) = DBSCAN_MIN_POINTS
    /\ PairwiseClose(nearbyHexes)
    /\ Len(fogResult) = 1
    /\ fogResult[1].distanceFromUser > 100

\* C8: getFogZones returns an empty list, without raising and without running
\* the clustering step, when the uncleared-cell list is empty or fewer than
\* minPoints (20) cells pass the pre-filter
C8_EarlyReturn ==
    LET passing == {h \in Range(allUnclearedHexes) :
                        Within(latLngToCell(userLocation), h)}
    IN  (fogPc \in {"returned", "threw"}
            /\ rpcCalls = 1
            /\ (allUnclearedHexes = <<>> \/ Cardinality(passing) < DBSCAN_MIN_POINTS))
        => (fogPc = "threw" \/ (fogResult = <<>> /\ dbscanRuns = 0))

C8_Witness ==
    /\ Returned
    /\ Len(allUnclearedHexes) >= DBSCAN_MIN_POINTS
    /\ nearbyHexes # <<>>
    /\ Len(nearbyHexes) < DBSCAN_MIN_POINTS
    /\ fogResult = <<>>


\* the clusters as sets of cells, and the zones without their ids
Membership(hexes, cluster) ==
    {{hexes[i] : i \in ClusterMembers(cluster, c)} : c \in Range(cluster) \ {0 - 1}}
WithoutId(z) == [centroid |-> z.centroid, hexCount |-> z.hexCount,
                 estimatedAreaKm2 |-> z.estimatedAreaKm2,
                 distanceFromUser |-> z.distanceFromUser,
                 priorityScore |-> z.priorityScore]
ZoneCount(zones, w) == Cardinality({k \in 1..Len(zones) : WithoutId(zones[k]) = w})

RECURSIVE SumHexCount(_)
SumHexCount(zones) ==
    IF zones = <<>> THEN 0 ELSE Head(zones).hexCount + SumHexCount(Tail(zones))

\* C16: noise cells are counted in no zone and every other nearby cell in
\* exactly one: the hexCounts of all zones built add up to the number of cells
\* with a non-negative cluster id, each cluster id has one zone, and the sum
\* never exceeds the number of pre-filtered cells
C16_NoiseExcludedDisjoint ==
    Returned =>
        LET ids == {clustered[i] : i \in 1..Len(clustered)} \ {0 - 1}
        IN  /\ SumHexCount(fogZones)
                  = Cardinality({i \in 1..Len(clustered) : clustered[i] >= 0})
            /\ SumHexCount(fogZones) <= Len(nearbyHexes)
            /\ Len(fogZones) = Cardinality(ids)
            /\ \A c \in ids : \E k \in 1..Len(fogZones) :
                  fogZones[k].hexCount
                      = Cardinality({i \in 1..Len(clustered) : clustered[i] = c})

\* two zones and at least one noise cell among the nearby cells
C16_Witness ==
    /\ Returned
    /\ Len(fogZones) >= 2
    /\ \E i \in 1..Len(clustered) : clustered[i] < 0
    /\ SumHexCount(fogZones) < Len(nearbyHexes)

-----------------------------------------------------------------------------
(* Claims about saveHexagons (SpecSave) *)

TableKeys(table) == [k \in 1..Len(table) |-> ConflictKey(table[k])]
Reupload ==
    /\ Len(saveLog) = 2
    /\ saveLog[1].outcome = "returned"
    /\ saveLog[2].outcome = "returned"
    /\ saveLog[2].h3Indices = saveLog[1].h3Indices

\* C17: a second saveHexagons call with the same index list for the same user
\* that completes leaves the cleared-cell table as the first call left it: the
\* same set of rows, none removed, none added, and no key stored twice
C17_ReuploadIdempotent ==
    /\ NoDuplicates(TableKeys(clearedHexagons))
    /\ Reupload =>
          /\ Range(saveLog[2].table) = Range(saveLog[1].table)
          /\ Len(saveLog[2].table) = Len(saveLog[1].table)
          /\ \A i \in 1..Len(saveLog[1].h3Indices) :
                ClearedRow(sessionUser.value, saveLog[1].h3Indices[i])
                    \in Range(saveLog[2].table)

\* the same list, with a repeated cell in it, has been uploaded twice
C17_Witness ==
    /\ Reupload
    /\ saveLog[1].h3Indices = <<2, 1, 2>>
    /\ Len(saveLog[2].table) >= 2

-----------------------------------------------------------------------------
(* Claims about the order of the steps of getFogZones (SpecFog) *)

CloseCells(a, b) ==
    DistSq(cellToLatLng(a), cellToLatLng(b))
        <= DBSCAN_MAX_DISTANCE_METERS * DBSCAN_MAX_DISTANCE_METERS

\* a nearby cell with minPoints nearby cells (itself included) around it
DenseAmongNearby(h) ==
    Cardinality({i \in 1..Len(nearbyHexes) : CloseCells(h, nearbyHexes[i])})
        >= DBSCAN_MIN_POINTS

\* C18: the cells handed to the clustering step are the cells that passed the
\* grid-distance filter, one point per cell, and nothing is filtered after
\* clustering: every cell with a cluster id is within 0.5 km of a cell that is
\* dense among the filtered cells, and every such cell is counted in a zone
C18_FilterBeforeClustering ==
    (Returned /\ dbscanRuns > 0) =>
        LET dense == {j \in 1..Len(nearbyHexes) : DenseAmongNearby(nearbyHexes[j])}
            ids   == {clustered[i] : i \in 1..Len(clustered)} \ {0 - 1}
        IN  /\ Len(clustered) = Len(nearbyHexes)
            /\ \A i \in 1..Len(nearbyHexes) :
                  Within(latLngToCell(userLocation), nearbyHexes[i])
            /\ \A i \in 1..Len(clustered) :
                  clustered[i] >= 0 <=>
                      \E j \in dense : CloseCells(nearbyHexes[i], nearbyHexes[j])
            /\ \A c \in ids : \E k \in 1..Len(fogZones) :
                  fogZones[k].hexCount
                      = Cardinality({j \in 1..Len(clustered) : clustered[j] = c})

\* clustering has run although a cell outside the radius lies within 0.5 km of
\* a cell that passed the filter
C18_Witness ==
    /\ Returned
    /\ dbscanRuns = 1
    /\ Len(fogZones) >= 1
    /\ \E h \in Range(allUnclearedHexes) \ Range(nearbyHexes) :
          \E n \in Range(nearbyHexes) : CloseCells(h, n)

-----------------------------------------------------------------------------
(* Claims about zone ids (SpecFog) *)

\* the position at which cluster c first appears in the clustered features
FirstFeature(c) ==
    CHOOSE i \in 1..Len(clustered) :
        clustered[i] = c /\ \A j \in 1..(i - 1) : clustered[j] # c

\* C20: the zone built from the k-th discovered cluster (k counted from 0, in
\* the order in which clusters first appear among the clustered features) has
\* id zone_k; the returned zones keep these ids through sorting and
\* truncation, so the ids of one result are pairwise distinct
C20_ZoneIdsByDiscovery ==
    Returned =>
        LET ids    == {clustered[i] : i \in 1..Len(clustered)} \ {0 - 1}
            firsts == {<<FirstFeature(c), c>> : c \in ids}
        IN  /\ Len(fogZones) = Cardinality(ids)
            /\ \A f \in firsts :
                  LET k == Cardinality({o \in firsts : o[1] < f[1]})
                  IN  /\ fogZones[k + 1].id = k
                      /\ fogZones[k + 1].hexCount
                            = Cardinality({i \in 1..Len(clustered) :
                                              clustered[i] = f[2]})
            /\ \A k \in 1..Len(fogResult) :
                  /\ fogResult[k].id \in 0..(Len(fogZones) - 1)
                  /\ fogResult[k] = fogZones[fogResult[k].id + 1]
            /\ \A j, k \in 1..Len(fogResult) :
                  j # k => fogResult[j].id # fogResult[k].id

\* a truncated result whose ids are out of order and leave a gap
C20_Witness ==
    /\ Returned
    /\ Len(fogZones) > MAX_ZONES_RETURNED
    /\ \E k \in 1..(Len(fogResult) - 1) : fogResult[k].id > fogResult[k + 1].id
    /\ \E missing \in 0..(Len(fogZones) - 1) :
          /\ \A k \in 1..Len(fogResult) : fogResult[k].id # missing
          /\ \E k \in 1..Len(fogResult) : fogResult[k].id > missing

-----------------------------------------------------------------------------
(* Claims about the chunks of saveHexagons (SpecSave) *)

\* the indices of the chunks passed to upsert, one after the other
RECURSIVE SentIndices(_)
SentIndices(chunks) ==
    IF chunks = <<>> THEN <<>>
    ELSE [k \in 1..Len(Head(chunks)) |-> Head(chunks)[k].h3_index]
            \o SentIndices(Tail(chunks))

\* ceil(n / CHUNK_SIZE)
ChunksNeeded(n) == (n + CHUNK_SIZE - 1) \div CHUNK_SIZE

\* C27: a save of n indices that returns has made ceil(n / 1000) upserts of at
\* most 1000 rows each, which together carry every index once and in input
\* order; a save stopped by a chunk error has sent only the chunks up to the
\* failing one and leaves the rows of the earlier chunks in the table; a save
\* of an empty list looks up no user and writes nothing
C27_ChunkedSave ==
    LET n == Len(h3Indices)
        sent == SentIndices(upsertCalls)
    IN  /\ \A k \in 1..Len(upsertCalls) : Len(upsertCalls[k]) <= CHUNK_SIZE
        /\ (savePc = "returned" /\ n > 0) =>
              /\ Len(upsertCalls) = ChunksNeeded(n)
              /\ sent = h3Indices
        /\ (savePc = "threw" /\ upsertCalls # <<>>) =>
              /\ Len(upsertCalls) <= ChunksNeeded(n)
              /\ Len(sent) <= n
              /\ sent = SubSeq(h3Indices, 1, Len(sent))
              /\ \A k \in 1..(Len(upsertCalls) - 1) :
                    \A j \in 1..Len(upsertCalls[k]) :
                        ConflictKey(upsertCalls[k][j]) \in Range(TableKeys(clearedHexagons))
        /\ (savePc \in {"returned", "threw"} /\ n = 0) =>
              /\ authLookups = 0
              /\ upsertCalls = <<>>

\* a save of more than one chunk whose second upsert failed after the first
\* was stored
C27_Witness ==
    /\ savePc = "threw"
    /\ Len(upsertCalls) = 2
    /\ Len(upsertCalls[1]) = CHUNK_SIZE
    /\ Len(h3Indices) > CHUNK_SIZE
    /\ ConflictKey(upsertCalls[1][1]) \in Range(TableKeys(clearedHexagons))

-----------------------------------------------------------------------------
(* Claims about multiPolygonToH3Indices (SpecPolygon) *)

\* what polygonToH3Indices gives for polygon k at the call's resolution
PolygonResult(k) == polygonToH3Indices(polyCoordinates[k], polyResolution)

\* C21: the result of multiPolygonToH3Indices is the union of the results of
\* polygonToH3Indices for its polygons at the same resolution, without
\* duplicates: a cell is in it iff it is in the result of some polygon, and
\* it is in it once
C21_DeduplicatedUnion ==
    polyPc = "done" =>
        /\ NoDuplicates(allIndices)
        /\ Range(allIndices)
              = UNION {Range(PolygonResult(k)) : k \in 1..Len(polyCoordinates)}
        /\ \A k \in 1..Len(polyCoordinates) :
              polyCalls[k].resolution = polyResolution

\* polygons that share cells, at a resolution other than the default one: the
\* result is smaller than the results of the polygons put together, and
\* larger than each of them
C21_Witness ==
    /\ polyPc = "done"
    /\ polyResolution # H3_RESOLUTION
    /\ Len(polyCoordinates) = MaxPolygons
    /\ \A k \in 1..Len(polyCoordinates) :
          /\ PolygonResult(k) # <<>>
          /\ Len(PolygonResult(k)) < Len(allIndices)
    /\ \E j, k \in 1..Len(polyCoordinates) :
          j # k /\ Range(PolygonResult(j)) \cap Range(PolygonResult(k)) # {}

-----------------------------------------------------------------------------
(* Claims about the dashboard (SpecDashboard, FairDashboard) *)

\* a step that is a run of handleGpxLoaded
GpxLoadedStep == gpxLoads' = gpxLoads + 1

\* C23: when a track is loaded while the dashboard is not authenticated, the
\* track is shown and nothing is saved: saveHexagons is not called, the
\* cleared cells stay as they are and isProcessing stays false
C23_UnauthenticatedLoadSavesNothing ==
    [][(GpxLoadedStep /\ ~isAuthenticated) =>
          /\ activityData' = Some(dropped.value.data)
          /\ saveCalls' = saveCalls
          /\ clearedState' = clearedState
          /\ isProcessing = FALSE /\ isProcessing' = FALSE]_vars

\* nothing the dashboard started is still in flight
NothingPending == ~userLookup /\ hexagonLoads = <<>> /\ ~upload.defined

\* C24: whenever the user is signed out and no getUserHexagons or
\* saveHexagons call is pending, the dashboard shows no cleared cell
C24_SignedOutShowsNothing ==
    (~sessionUser.defined /\ ~isAuthenticated /\ NothingPending) =>
        clearedState = <<>>

\* C25: an upload that set isProcessing to true sets it back to false, whether
\* the save succeeds or fails
C25_ProcessingEnds == isProcessing ~> ~isProcessing

\* an upload whose save has failed and whose handler has not yet resumed
C25_Witness ==
    /\ isProcessing
    /\ upload.defined
    /\ savePc = "threw"

\* a step in which handleGpxLoaded resumes after saveHexagons
ResumeStep == upload.defined /\ ~upload'.defined

\* C26: after a successful upload the cleared cells are the union, without
\* duplicates, of the cells before and the new indices; after a failed save
\* they are what they were
C26_MergeOnSuccessOnly ==
    [][ResumeStep =>
          IF savePc = "returned"
          THEN /\ Range(clearedState') = Range(clearedState) \cup Range(upload.value)
               /\ NoDuplicates(clearedState')
          ELSE clearedState' = clearedState]_vars

\* a successful upload has been merged into cells loaded before it
C26_Witness ==
    /\ ~upload.defined
    /\ saveCalls > 0
    /\ savePc = "returned"
    /\ <<5, 5>> \in Range(clearedState)
    /\ <<0, 0>> \in Range(clearedState)
    /\ Len(clearedState) > Len(h3Indices)

\* the lines of the track on the map, one by one
RecordedLines ==
    UNION {Range(activityData.value[k].geometry.value.lines) :
              k \in {j \in 1..Len(activityData.value) :
                        /\ activityData.value[j].geometry.defined
                        /\ activityData.value[j].geometry.value.type
                              \in {"LineString", "MultiLineString"}}}

\* C29: the cells of an upload lie along the recorded lines only: each is a
\* cell of one of the lines taken by itself, none comes from the stretch
\* between the end of one line and the start of the next
C29_CellsAlongLinesOnly ==
    upload.defined =>
        Range(upload.value)
            \subseteq UNION {Range(trackToH3Indices(line)) : line \in RecordedLines}

=============================================================================
